---- MODULE Spec2Model ----
(***************************************************************************)
(* Model of the MasteryOs trackers:                                        *)
(*   - the "topics" tracker (vanilla JS, src/unnamed/part_000:576-935):    *)
(*     global `topics` array, loadTopics/saveTopics over localStorage,     *)
(*     createTopic / updateTopic / deleteTopic;                            *)
(*   - the JourneyTracker React component (src/journey-tracker.jsx):       *)
(*     `journeys` state, the load and save effects, the form handlers.     *)
(*                                                                         *)
(* JavaScript values that the code may hold in `topics` / `journeys` are   *)
(* records [type, elems]: type "array" carries the items in elems, the     *)
(* other types ("null", "object", "number", "string") carry none.          *)
(* A localStorage entry is a record [kind, elems]: kind "absent" is a      *)
(* missing key (getItem returns null), kind "array" is the JSON text of    *)
(* an array of items, "null" is the text null, "object" the text {},       *)
(* "number" the text 0 and "string" the text "" (the number and the string *)
(* that are falsy), "empty" is the empty string and "corrupt" is a text    *)
(* that JSON.parse rejects.                                                *)
(* Items are functions from field names to values; ids and progress are    *)
(* integers, every other field is a string.                                *)
(***************************************************************************)
EXTENDS Integers, Sequences, FiniteSets, TLC

VARIABLES
    now,        \* the wall clock read by Date.now() / new Date()
    storage,    \* localStorage: key -> entry
    fails,      \* number of storage writes that have thrown so far
    topics,     \* topics tracker: the global `topics`
    tpc,        \* topics tracker: "loading" | "ready" | "crashed"
    lastOp,     \* topics tracker: the last call and what it did
    journeys,   \* JourneyTracker: the `journeys` state
    jPending,   \* JourneyTracker: state update queued by setJourneys in an effect
    jPhase,     \* JourneyTracker: "unmounted" | "loadEffect" | "saveEffect" | "rerender" |
                \*   "idle" | "effectThrew" | "renderThrew" (React unmounted the tree)
    formData,   \* JourneyTracker: the `formData` state
    showForm,   \* JourneyTracker: the `showForm` state
    editingId,  \* JourneyTracker: the `editingId` state (0 stands for null)
    filter,     \* JourneyTracker: the `filter` state
    formInputs, \* JourneyTracker: the values the required inputs of the form hold in
                \*   the page (input name -> text; all empty while the form is not shown)
    jAtMount,   \* JourneyTracker: the entry under 'journeys' at the mount, kept until a handler sets `journeys`
    jTouched,   \* JourneyTracker: a handler has set `journeys` since the mount
    currentFilter,   \* topics tracker: the global `currentFilter`
    editingTopicId,  \* topics tracker: the global `editingTopicId` (0 stands for null)
    modalOpen,       \* topics tracker: the modal carries the class 'active'
    shown,           \* topics tracker: the topics whose cards are in journeyList
    stats,           \* topics tracker: the four counters as displayed
    lastUi,          \* topics tracker: the last handler that ran and what it did
    nodes,           \* nodes tracker: the global `journeys` of the nodes tracker
    nodeFilter,      \* nodes tracker: its global `currentFilter`
    lastNode,        \* nodes tracker: the last operation and what it did
    counts,          \* nodes tracker: total and completed as render() counted them
    percent,         \* nodes tracker: the percentage render() put on the progress bar
    searchInput,     \* nodes tracker: the value of the search input
    listed,          \* nodes tracker: the cards render() put in the list, and whether
                     \*   a call of render() threw
    searchDebounceTimer,  \* nodes tracker: the global `searchDebounceTimer` (0 stands for null)
    timers,          \* the browser's pending timeouts: records [id, left]
    quiet,           \* milliseconds since the last keystroke in the search input
    burst            \* keystrokes of the current burst and the renders it has caused

vars == <<now, storage, fails, topics, tpc, lastOp, journeys, jPending, jPhase,
          formData, showForm, editingId, filter, formInputs, jAtMount, jTouched,
          currentFilter, editingTopicId, modalOpen, shown, stats, lastUi,
          nodes, nodeFilter, lastNode, counts, percent,
          searchInput, listed, searchDebounceTimer, timers, quiet, burst>>

topicsVars == <<topics, tpc, lastOp>>
journeyVars == <<journeys, jPending, jPhase, formData, showForm, editingId, filter,
                 formInputs, jAtMount, jTouched>>
uiVars == <<currentFilter, editingTopicId, modalOpen, shown, stats, lastUi>>
nodeVars == <<nodes, nodeFilter, lastNode, counts, percent,
             searchInput, listed, searchDebounceTimer, timers, quiet, burst>>

----------------------------------------------------------------------------
(* Bounds of the model *)

MaxTime == 2      \* the clock runs over 1..MaxTime
MaxTopics == 2    \* create is explored while the collection is shorter than this
MaxFails == 1     \* storage writes that may throw in one behaviour

----------------------------------------------------------------------------
(* JavaScript values and JSON *)

KeyTopics == "learningTopics"
KeyJourneys == "journeys"
KeyNodes == "mastery_os_v3"
Keys == {KeyTopics, KeyJourneys, KeyNodes}

UNDEFINED == "#undefined"
NumFields == {"id", "progress"}

Arr(s) == [type |-> "array", elems |-> s]
JSNull == [type |-> "null", elems |-> <<>>]
JSOther(t) == [type |-> t, elems |-> <<>>]

AbsentEntry == [kind |-> "absent", elems |-> <<>>]
TextOf(k) == [kind |-> k, elems |-> <<>>]
NonArrayKinds == {"null", "object", "number", "string"}

\* `x ? a : b` and `if (x)` on what getItem returned: null and '' are falsy.
Truthy(entry) == entry.kind \notin {"absent", "empty"}

\* Numeric fields hold integers; two integers that no id and no progress takes stand
\* for the number NaN and for the null that JSON text holds in place of a number.
NaN == -1
NullNumber == -2

IsUndefined(item, f) == f \notin NumFields /\ item[f] = UNDEFINED

\* JSON.stringify of one object: properties whose value is undefined are left out,
\* and NaN, which JSON has no text for, is written as null.
stringifyItem(item) ==
    [f \in {g \in DOMAIN item : ~IsUndefined(item, g)} |->
        IF f \in NumFields /\ item[f] = NaN THEN NullNumber ELSE item[f]]

\* JSON.stringify(value)
JSONstringify(v) ==
    IF v.type = "array"
    THEN [kind |-> "array",
          elems |-> [i \in 1..Len(v.elems) |-> stringifyItem(v.elems[i])]]
    ELSE TextOf(v.type)

\* JSON.parse(text): threw = TRUE stands for the SyntaxError.
JSONparse(entry) ==
    CASE entry.kind = "array" -> [threw |-> FALSE, value |-> Arr(entry.elems)]
      [] entry.kind \in NonArrayKinds -> [threw |-> FALSE, value |-> JSOther(entry.kind)]
      [] OTHER -> [threw |-> TRUE, value |-> JSNull]

\* { ...old, ...data }
Merge(old, data) ==
    [f \in DOMAIN old \cup DOMAIN data |->
        IF f \in DOMAIN data THEN data[f] ELSE old[f]]

\* new Date().toISOString() for the clock value t (milliseconds)
toISOString(t) ==
    "1970-01-01T00:00:00." \o (IF t < 10 THEN "00" ELSE IF t < 100 THEN "0" ELSE "")
        \o ToString(t) \o "Z"

----------------------------------------------------------------------------
(* Topics tracker: persistence adapter and CRUD (src/unnamed/part_000) *)

\* What handleFormSubmit builds from the form (formData, lines 804-813): the
\* payload createTopic is called with.
FormPayloads ==
    { [name |-> "b", category |-> "db", status |-> "in-progress",
       startDate |-> "2024-01-01", targetDate |-> "", progress |-> 50,
       resources |-> "", notes |-> "n"] }

\* The payload of updateTopic that is explored: a partial one, naming two of the
\* fields of a topic.
UpdatePayloads ==
    { [status |-> "completed", progress |-> 100] }

NoData == [status |-> ""]

\* The ids a caller may pass: the clock values, whether or not an item has them.
CallIds == 1..MaxTime

\* Entries that may sit under the key before the page first loads.
InitialEntries ==
    { AbsentEntry, TextOf("empty"), TextOf("corrupt"), TextOf("null"),
      TextOf("object"), TextOf("number"), TextOf("string"),
      [kind |-> "array", elems |-> <<>>] }

\* loadTopics returning [] without reading what is stored.
loadTopics_noParse(store) == Arr(<<>>)

\* loadTopics(): stored ? JSON.parse(stored) : [], and [] when anything throws.
loadTopics(store) ==
    LET stored == store[KeyTopics]
    IN  IF Truthy(stored)
        THEN IF JSONparse(stored).threw THEN Arr(<<>>) ELSE JSONparse(stored).value
        ELSE Arr(<<>>)

\* saveTopics writing under another key than the one loadTopics reads.
saveTopics_wrongKey(store, T, ok) ==
    [store |-> IF ok THEN [store EXCEPT ![KeyJourneys] = JSONstringify(T)] ELSE store,
     wrote |-> TRUE,
     raised |-> FALSE,
     alerted |-> ~ok]

\* saveTopics without its try/catch: the exception of setItem leaves the function.
saveTopics_noCatch(store, T, ok) ==
    [store |-> IF ok THEN [store EXCEPT ![KeyTopics] = JSONstringify(T)] ELSE store,
     wrote |-> TRUE,
     raised |-> ~ok,
     alerted |-> FALSE]

\* saveTopics adding the first topic to what is stored, not writing the collection.
saveTopics_append(store, T, ok) ==
    [store |-> IF ok
               THEN [store EXCEPT ![KeyTopics] =
                        [kind |-> "array",
                         elems |-> (IF T.elems = <<>> THEN <<>>
                                    ELSE <<stringifyItem(T.elems[1])>>)
                                   \o (IF @.kind = "array" THEN @.elems ELSE <<>>)]]
               ELSE store,
     wrote |-> TRUE,
     raised |-> FALSE,
     alerted |-> ~ok]

\* saveTopics(topicsToSave): ok = FALSE is localStorage.setItem throwing; the catch
\* block logs and alerts, and nothing is rethrown.
saveTopics(store, T, ok) ==
    [store |-> IF ok THEN [store EXCEPT ![KeyTopics] = JSONstringify(T)] ELSE store,
     wrote |-> TRUE,
     raised |-> FALSE,
     alerted |-> ~ok]

\* A path of a function on which saveTopics is not called.
NoSave(store) ==
    [store |-> store, wrote |-> FALSE, raised |-> FALSE, alerted |-> FALSE]

\* { id: Date.now(), ...topicData, createdAt: new Date().toISOString() }: the clock
\* is read twice, t by Date.now() and u by new Date().
newTopic(data, t, u) ==
    Merge(Merge([id |-> t], data), [createdAt |-> toISOString(u)])

\* createTopic adding the new topic at the end (push in place of unshift).
createTopic_push(T, store, data, t, u, ok) ==
    LET T1 == Arr(Append(T.elems, newTopic(data, t, u)))
    IN  [topics |-> T1, save |-> saveTopics(store, T1, ok), ret |-> "item"]

\* createTopic(topicData) with the clock reading t and then u: topics.unshift(newTopic);
\* saveTopics(topics)
createTopic(T, store, data, t, u, ok) ==
    LET T1 == Arr(<<newTopic(data, t, u)>> \o T.elems)
    IN  [topics |-> T1, save |-> saveTopics(store, T1, ok), ret |-> "item"]

\* topics.findIndex(topic => topic.id === id); 0 stands for JavaScript's -1 and
\* the indexes are 1-based.
findIndex(T, id) ==
    IF \E i \in 1..Len(T.elems) : T.elems[i].id = id
    THEN CHOOSE i \in 1..Len(T.elems) :
            /\ T.elems[i].id = id
            /\ \A j \in 1..(i - 1) : T.elems[j].id # id
    ELSE 0

\* updateTopic assigning updatedData without spreading the existing topic.
updateTopic_replace(T, store, id, data, ok) ==
    LET index == findIndex(T, id)
        T1 == Arr([T.elems EXCEPT ![index] = data])
    IN  IF index # 0
        THEN [topics |-> T1, save |-> saveTopics(store, T1, ok), ret |-> "item"]
        ELSE [topics |-> T, save |-> NoSave(store), ret |-> "null"]

\* updateTopic calling saveTopics after the if, on both paths.
updateTopic_alwaysSave(T, store, id, data, ok) ==
    LET index == findIndex(T, id)
        T1 == Arr([T.elems EXCEPT ![index] = Merge(T.elems[index], data)])
    IN  IF index # 0
        THEN [topics |-> T1, save |-> saveTopics(store, T1, ok), ret |-> "item"]
        ELSE [topics |-> T, save |-> saveTopics(store, T, ok), ret |-> "null"]

\* updateTopic(id, updatedData)
updateTopic(T, store, id, data, ok) ==
    LET index == findIndex(T, id)
        T1 == Arr([T.elems EXCEPT ![index] = Merge(T.elems[index], data)])
    IN  IF index # 0
        THEN [topics |-> T1, save |-> saveTopics(store, T1, ok), ret |-> "item"]
        ELSE [topics |-> T, save |-> NoSave(store), ret |-> "null"]

\* deleteTopic calling saveTopics before the length test, on both paths.
deleteTopic_alwaysSave(T, store, id, ok) ==
    LET initialLength == Len(T.elems)
        T1 == Arr(SelectSeq(T.elems, LAMBDA x : x.id # id))
    IN  [topics |-> T1, save |-> saveTopics(store, T1, ok),
         ret |-> IF Len(T1.elems) < initialLength THEN "true" ELSE "false"]

\* deleteTopic(id)
deleteTopic(T, store, id, ok) ==
    LET initialLength == Len(T.elems)
        T1 == Arr(SelectSeq(T.elems, LAMBDA x : x.id # id))
    IN  IF Len(T1.elems) < initialLength
        THEN [topics |-> T1, save |-> saveTopics(store, T1, ok), ret |-> "true"]
        ELSE [topics |-> T1, save |-> NoSave(store), ret |-> "false"]

\* renderTopics() and updateStatistics() read topics.length and call topics.filter /
\* filteredTopics.map: on a value that is not an array one of them throws a TypeError.
initRaises(T) == T.type # "array"

----------------------------------------------------------------------------
(* Topics tracker: the page (rendering, modal, form, filter, statistics) *)

\* The statuses updateStatistics counts; the filter buttons carry them and 'all'.
TopicStatuses == {"not-started", "in-progress", "completed"}
TopicFilters == {"all"} \cup TopicStatuses

\* Texts typed into an input are sequences of one-character strings.
Whitespace == {" "}

RECURSIVE trimStart(_)
trimStart(s) ==
    IF s # <<>> /\ Head(s) \in Whitespace THEN trimStart(Tail(s)) ELSE s

RECURSIVE trimEnd(_)
trimEnd(s) ==
    IF s # <<>> /\ s[Len(s)] \in Whitespace THEN trimEnd(SubSeq(s, 1, Len(s) - 1)) ELSE s

\* String.prototype.trim()
trim(s) == trimEnd(trimStart(s))

\* The JavaScript string made of the characters of s
RECURSIVE Text(_)
Text(s) == IF s = <<>> THEN "" ELSE Head(s) \o Text(Tail(s))

DigitValue(c) ==
    CASE c = "0" -> 0 [] c = "1" -> 1 [] c = "2" -> 2 [] c = "3" -> 3 [] c = "4" -> 4
      [] c = "5" -> 5 [] c = "6" -> 6 [] c = "7" -> 7 [] c = "8" -> 8 [] c = "9" -> 9

RECURSIVE parseDigits(_, _)
parseDigits(s, acc) ==
    IF s = <<>> THEN acc ELSE parseDigits(Tail(s), 10 * acc + DigitValue(Head(s)))

\* parseInt(progressInput.value): the value of a range input is a decimal numeral.
parseInt(s) == parseDigits(s, 0)

\* What the inputs of the form hold when it is submitted.
RawForms ==
    { [name |-> <<" ", "c">>, category |-> "web", status |-> "completed",
       startDate |-> "", targetDate |-> "", progress |-> <<"1", "0", "0">>,
       resources |-> <<>>, notes |-> <<"n", " ">>],
      [name |-> <<"a">>, category |-> "db", status |-> "not-started",
       startDate |-> "", targetDate |-> "", progress |-> <<"0">>,
       resources |-> <<>>, notes |-> <<>>],
      [name |-> <<" ", " ">>, category |-> "web", status |-> "in-progress",
       startDate |-> "", targetDate |-> "", progress |-> <<"5">>,
       resources |-> <<>>, notes |-> <<>>],
      [name |-> <<"a">>, category |-> "", status |-> "in-progress",
       startDate |-> "", targetDate |-> "", progress |-> <<"5">>,
       resources |-> <<>>, notes |-> <<>>] }

\* const formData = { ... } of handleFormSubmit (lines 804-813)
readForm(raw) ==
    [name |-> Text(trim(raw.name)), category |-> raw.category, status |-> raw.status,
     startDate |-> raw.startDate, targetDate |-> raw.targetDate,
     progress |-> parseInt(raw.progress), resources |-> Text(trim(raw.resources)),
     notes |-> Text(trim(raw.notes))]

\* renderTopics showing every topic, whatever the filter.
renderTopics_noFilter(T, f) == T.elems

\* renderTopics filtering the topics after the first one only.
renderTopics_skipFirst(T, f) ==
    IF f # "all" /\ T.elems # <<>>
    THEN SelectSeq(Tail(T.elems), LAMBDA topic : topic.status = f)
    ELSE T.elems

\* filteredTopics of renderTopics (lines 667-670): the topics whose cards it puts
\* in journeyList.
renderTopics(T, f) ==
    IF f # "all" THEN SelectSeq(T.elems, LAMBDA topic : topic.status = f) ELSE T.elems

CountStatus(T, s) == Cardinality({i \in 1..Len(T.elems) : T.elems[i].status = s})

\* updateStatistics leaving the completed counter at 0.
updateStatistics_noCompleted(T) ==
    [notStarted |-> CountStatus(T, "not-started"),
     inProgress |-> CountStatus(T, "in-progress"),
     completed |-> 0,
     total |-> Len(T.elems)]

\* updateStatistics(): the four numbers it writes into the page.
updateStatistics(T) ==
    [notStarted |-> CountStatus(T, "not-started"),
     inProgress |-> CountStatus(T, "in-progress"),
     completed |-> CountStatus(T, "completed"),
     total |-> Len(T.elems)]

\* The counters before init has run.
NoStats == [notStarted |-> 0, inProgress |-> 0, completed |-> 0, total |-> 0]

\* getTopicById(id): topics.find(...); 0 stands for undefined, else the index.
getTopicById(T, id) == findIndex(T, id)

\* handleFormSubmit testing the name only, not the category.
handleFormSubmit_nameOnly(T, store, eid, raw, t, u, ok) ==
    LET fd == readForm(raw)
    IN  IF fd.name = ""
        THEN [valid |-> FALSE, alerted |-> TRUE, closes |-> FALSE,
              call |-> [topics |-> T, save |-> NoSave(store), ret |-> "none"]]
        ELSE [valid |-> TRUE, alerted |-> FALSE, closes |-> TRUE,
              call |-> IF eid # 0
                       THEN updateTopic(T, store, eid, fd, ok)
                       ELSE createTopic(T, store, fd, t, u, ok)]

\* handleFormSubmit(e) with editingTopicId = eid and the inputs holding raw:
\* valid is the outcome of the test on name and category, call the CRUD call made
\* after it, closes whether renderTopics, updateStatistics and closeModal ran.
handleFormSubmit(T, store, eid, raw, t, u, ok) ==
    LET fd == readForm(raw)
    IN  IF fd.name = "" \/ fd.category = ""
        THEN [valid |-> FALSE, alerted |-> TRUE, closes |-> FALSE,
              call |-> [topics |-> T, save |-> NoSave(store), ret |-> "none"]]
        ELSE [valid |-> TRUE, alerted |-> FALSE, closes |-> TRUE,
              call |-> IF eid # 0
                       THEN updateTopic(T, store, eid, fd, ok)
                       ELSE createTopic(T, store, fd, t, u, ok)]

\* The record of the nodes tracker's last operation, when there was none.
NoNode == [op |-> "none", outcome |-> "none", asked |-> FALSE, confirmed |-> FALSE,
           count |-> 0]

NoUi == [handler |-> "none", valid |-> FALSE, editId |-> 0, ret |-> "none",
         alerted |-> FALSE, confirmed |-> FALSE]

NoOp == [op |-> "none", id |-> 0, data |-> NoData, ret |-> "none",
         wrote |-> FALSE, writeOk |-> FALSE, raised |-> FALSE, alerted |-> FALSE]

CanWrite(ok) == ok \/ fails < MaxFails

\* The outcome r of a call becomes the state; a call that does not write is explored
\* once (ok = TRUE), since ok is then not read.
Returns(r, op, id, data, ok) ==
    /\ IF r.save.wrote THEN CanWrite(ok) ELSE ok
    /\ topics' = r.topics
    /\ storage' = r.save.store
    /\ fails' = IF r.save.wrote /\ ~ok THEN fails + 1 ELSE fails
    /\ lastOp' = [op |-> op, id |-> id, data |-> data, ret |-> r.ret,
                  wrote |-> r.save.wrote, writeOk |-> r.save.wrote /\ ok,
                  raised |-> r.save.raised, alerted |-> r.save.alerted]

\* The wall clock advances.
Tick ==
    /\ now < MaxTime
    /\ now' = now + 1
    /\ lastOp' = NoOp
    /\ lastUi' = NoUi
    /\ lastNode' = NoNode
    /\ UNCHANGED <<storage, fails, topics, tpc, journeyVars, currentFilter,
                   editingTopicId, modalOpen, shown, stats, nodes, nodeFilter, counts,
                   percent, searchInput, listed,
                   searchDebounceTimer, timers, quiet, burst>>

\* document.addEventListener('DOMContentLoaded', init): init() loads the collection
\* and puts the cards of renderTopics and the counters of updateStatistics on the
\* page; when the loaded value is not an array an exception leaves init before the
\* page is changed and before the handlers are attached.
InitPage ==
    /\ tpc = "loading"
    /\ topics' = loadTopics(storage)
    /\ tpc' = IF initRaises(topics') THEN "crashed" ELSE "ready"
    /\ lastOp' = [NoOp EXCEPT !.op = "init", !.raised = initRaises(topics')]
    /\ shown' = IF initRaises(topics') THEN shown
                ELSE renderTopics(topics', currentFilter)
    /\ stats' = IF initRaises(topics') THEN stats ELSE updateStatistics(topics')
    /\ UNCHANGED <<now, storage, fails, journeyVars, currentFilter, editingTopicId,
                   modalOpen, lastUi, nodeVars>>

\* The page is loaded again: the script runs from its first line (let topics = []).
ReloadPage ==
    /\ tpc \in {"ready", "crashed"}
    /\ tpc' = "loading"
    /\ topics' = Arr(<<>>)
    /\ lastOp' = NoOp
    /\ currentFilter' = "all"
    /\ editingTopicId' = 0
    /\ modalOpen' = FALSE
    /\ shown' = <<>>
    /\ stats' = NoStats
    /\ lastUi' = NoUi
    /\ UNCHANGED <<now, storage, fails, journeyVars, nodeVars>>

\* A call createTopic(data), whatever the length of the collection; the clock may
\* advance between the two readings of the call.
CallCreateTopic(data, ok) ==
    /\ tpc = "ready"
    /\ \E u \in now..MaxTime :
          /\ Returns(createTopic(topics, storage, data, now, u, ok), "create", now, data,
                     ok)
          /\ now' = u
    /\ UNCHANGED <<tpc, journeyVars, uiVars, nodeVars>>

\* A call createTopic(data), explored while the collection is short
CreateTopic(data, ok) ==
    /\ Len(topics.elems) < MaxTopics
    /\ CallCreateTopic(data, ok)

\* A call updateTopic(id, data)
UpdateTopic(id, data, ok) ==
    /\ tpc = "ready"
    /\ Returns(updateTopic(topics, storage, id, data, ok), "update", id, data, ok)
    /\ UNCHANGED <<now, tpc, journeyVars, uiVars, nodeVars>>

\* A call deleteTopic(id)
DeleteTopic(id, ok) ==
    /\ tpc = "ready"
    /\ Returns(deleteTopic(topics, storage, id, ok), "delete", id, NoData, ok)
    /\ UNCHANGED <<now, tpc, journeyVars, uiVars, nodeVars>>

DoCreateTopic == \E data \in FormPayloads, ok \in BOOLEAN : CreateTopic(data, ok)
DoUpdateTopic == \E id \in CallIds, data \in UpdatePayloads, ok \in BOOLEAN :
                    UpdateTopic(id, data, ok)
DoDeleteTopic == \E id \in CallIds, ok \in BOOLEAN : DeleteTopic(id, ok)

JourneyIdle ==
    /\ journeys = Arr(<<>>)
    /\ jPending = [set |-> FALSE, value |-> JSNull]
    /\ jPhase = "unmounted"
    /\ formData = [title |-> "", startDate |-> "", endDate |-> "", EndofTask |-> "",
                   status |-> "planning", notes |-> ""]
    /\ showForm = FALSE
    /\ editingId = 0
    /\ filter = "all"
    /\ formInputs = [n \in {"title", "startDate", "endDate", "End of Task"} |-> ""]
    /\ jAtMount = AbsentEntry
    /\ jTouched = FALSE

\* The topics page before its script has run.
TopicsIdle ==
    /\ topics = Arr(<<>>)
    /\ tpc = "loading"
    /\ lastOp = NoOp
    /\ currentFilter = "all"
    /\ editingTopicId = 0
    /\ modalOpen = FALSE
    /\ shown = <<>>
    /\ stats = NoStats
    /\ lastUi = NoUi

\* The search input, the list and the debounce timer before the script has run.
SearchIdle ==
    /\ searchInput = ""
    /\ listed = [threw |-> FALSE, list |-> <<>>]
    /\ searchDebounceTimer = 0
    /\ timers = {}
    /\ quiet = 0
    /\ burst = [keys |-> 0, renders |-> 0]

\* The nodes tracker before its script has run.
NodesIdle ==
    /\ nodes = Arr(<<>>)
    /\ nodeFilter = "all"
    /\ lastNode = NoNode
    /\ counts = [total |-> 0, completed |-> 0]
    /\ percent = 0
    /\ SearchIdle

InitTopics ==
    /\ now = 1
    /\ fails = 0
    /\ \E e \in InitialEntries :
          storage = [k \in Keys |-> IF k = KeyTopics THEN e ELSE AbsentEntry]
    /\ TopicsIdle
    /\ JourneyIdle
    /\ NodesIdle

TopicsNext ==
    \/ Tick
    \/ InitPage
    \/ ReloadPage
    \/ DoCreateTopic
    \/ DoUpdateTopic
    \/ DoDeleteTopic

SpecTopics == InitTopics /\ [][TopicsNext]_vars

----------------------------------------------------------------------------
(* Topics tracker: saveTopics and loadTopics called by themselves *)

\* The arrays a caller passes to saveTopics: collections of topics as the form and
\* createTopic build them, and collections holding a value JSON has no text for
\* (a property set to undefined, a progress of NaN).
SaveArguments ==
    LET topic(k, name) ==
            newTopic([(CHOOSE p \in FormPayloads : TRUE) EXCEPT !.name = name], k, k)
    IN  { Arr(<<>>),
          Arr(<<topic(1, "a")>>),
          Arr(<<topic(2, "b"), topic(1, "a")>>),
          Arr(<<topic(1, "b"), topic(1, "a")>>),
          Arr(<<[topic(1, "a") EXCEPT !.notes = UNDEFINED]>>),
          Arr(<<topic(2, "b"), [topic(1, "a") EXCEPT !.progress = NaN]>>) }

\* A call saveTopics(C) once the script has run; the global `topics` is not read
\* and not assigned.
SaveTopics(C, ok) ==
    /\ tpc # "loading"
    /\ Returns([topics |-> topics, save |-> saveTopics(storage, C, ok), ret |-> "none"],
               "save", 0, C, ok)
    /\ UNCHANGED <<now, tpc, journeyVars, uiVars, nodeVars>>

\* The page loads, saveTopics is called, the page is loaded again.
RoundTripNext ==
    \/ InitPage
    \/ ReloadPage
    \/ \E C \in SaveArguments, ok \in BOOLEAN : SaveTopics(C, ok)

SpecRoundTrip == InitTopics /\ [][RoundTripNext]_vars

----------------------------------------------------------------------------
(* Topics tracker: the handlers of the page.  init attaches them, so they run  *)
(* only on a page whose init came to its end (tpc = "ready").                  *)

\* A handler path on which no CRUD function is called.
NoCall(T, store) == [topics |-> T, save |-> NoSave(store), ret |-> "none"]

\* The add button: openModal('add')
OpenModalAdd ==
    /\ tpc = "ready"
    /\ editingTopicId' = 0
    /\ modalOpen' = TRUE
    /\ lastOp' = NoOp
    /\ lastUi' = NoUi
    /\ UNCHANGED <<now, storage, fails, topics, tpc, currentFilter, shown, stats,
                   journeyVars, nodeVars>>

\* The edit button of the i-th card: handleEditTopic(topicId), openModal('edit', topic)
HandleEditTopic(i) ==
    /\ tpc = "ready"
    /\ i \in 1..Len(shown)
    /\ LET topicId == shown[i].id
           found == getTopicById(topics, topicId)
       IN  /\ editingTopicId' = IF found # 0 THEN topics.elems[found].id
                                ELSE editingTopicId
           /\ modalOpen' = IF found # 0 THEN TRUE ELSE modalOpen
           /\ lastUi' = [NoUi EXCEPT !.handler = "edit", !.editId = topicId]
    /\ lastOp' = NoOp
    /\ UNCHANGED <<now, storage, fails, topics, tpc, currentFilter, shown, stats,
                   journeyVars, nodeVars>>

\* The close button, the cancel button, a click on the backdrop, Escape: closeModal()
CloseModal ==
    /\ tpc = "ready"
    /\ modalOpen
    /\ modalOpen' = FALSE
    /\ editingTopicId' = 0
    /\ lastOp' = NoOp
    /\ lastUi' = NoUi
    /\ UNCHANGED <<now, storage, fails, topics, tpc, currentFilter, shown, stats,
                   journeyVars, nodeVars>>

\* The form is submitted with the inputs holding raw: handleFormSubmit(e).  A
\* submission that creates a topic reads the clock twice, and the clock may advance
\* between the two readings; no other path reads it.
HandleFormSubmit(raw, ok) ==
    /\ tpc = "ready"
    /\ modalOpen
    /\ \E first \in {handleFormSubmit(topics, storage, editingTopicId, raw, now, now, ok)} :
       \E u \in IF first.valid /\ editingTopicId = 0 THEN now..MaxTime ELSE {now} :
       \E h \in {IF u = now THEN first
                  ELSE handleFormSubmit(topics, storage, editingTopicId, raw, now, u, ok)} :
           /\ now' = u
           /\ Returns(h.call,
                      IF ~h.valid THEN "none"
                      ELSE IF editingTopicId # 0 THEN "update" ELSE "create",
                      IF ~h.valid THEN 0
                      ELSE IF editingTopicId # 0 THEN editingTopicId ELSE now,
                      IF h.valid THEN readForm(raw) ELSE NoData,
                      ok)
           /\ lastUi' = [handler |-> "submit", valid |-> h.valid,
                         editId |-> editingTopicId, ret |-> h.call.ret,
                         alerted |-> h.alerted, confirmed |-> FALSE]
           /\ shown' = IF h.closes THEN renderTopics(h.call.topics, currentFilter)
                       ELSE shown
           /\ stats' = IF h.closes THEN updateStatistics(h.call.topics) ELSE stats
           /\ modalOpen' = IF h.closes THEN FALSE ELSE modalOpen
           /\ editingTopicId' = IF h.closes THEN 0 ELSE editingTopicId
    /\ UNCHANGED <<tpc, currentFilter, journeyVars, nodeVars>>

\* handleDeleteTopic(topicId) for the i-th card, with the answer given to confirm()
handleDeleteTopic(T, store, topicId, confirmed, ok) ==
    IF confirmed THEN deleteTopic(T, store, topicId, ok) ELSE NoCall(T, store)

\* handleDeleteTopic deleting the topic and leaving the page as it was.
HandleDeleteTopic_noRender(i, confirmed, ok) ==
    /\ tpc = "ready"
    /\ i \in 1..Len(shown)
    /\ LET topicId == shown[i].id
           r == handleDeleteTopic(topics, storage, topicId, confirmed, ok)
       IN  /\ Returns(r, IF confirmed THEN "delete" ELSE "none",
                      IF confirmed THEN topicId ELSE 0, NoData, ok)
           /\ lastUi' = [NoUi EXCEPT !.handler = "delete", !.editId = topicId,
                                     !.ret = r.ret, !.confirmed = confirmed]
    /\ UNCHANGED <<now, tpc, currentFilter, editingTopicId, modalOpen, shown, stats,
                   journeyVars, nodeVars>>

\* The delete button of the i-th card
HandleDeleteTopic(i, confirmed, ok) ==
    /\ tpc = "ready"
    /\ i \in 1..Len(shown)
    /\ LET topicId == shown[i].id
           r == handleDeleteTopic(topics, storage, topicId, confirmed, ok)
       IN  /\ Returns(r, IF confirmed THEN "delete" ELSE "none",
                      IF confirmed THEN topicId ELSE 0, NoData, ok)
           /\ lastUi' = [NoUi EXCEPT !.handler = "delete", !.editId = topicId,
                                     !.ret = r.ret, !.confirmed = confirmed]
           /\ shown' = IF confirmed THEN renderTopics(r.topics, currentFilter) ELSE shown
           /\ stats' = IF confirmed THEN updateStatistics(r.topics) ELSE stats
    /\ UNCHANGED <<now, tpc, currentFilter, editingTopicId, modalOpen, journeyVars,
                   nodeVars>>

\* A filter button: setFilter(filter)
SetTopicFilter(f) ==
    /\ tpc = "ready"
    /\ currentFilter' = f
    /\ shown' = renderTopics(topics, f)
    /\ lastOp' = NoOp
    /\ lastUi' = NoUi
    /\ UNCHANGED <<now, storage, fails, topics, tpc, editingTopicId, modalOpen, stats,
                   journeyVars, nodeVars>>

DoHandleEditTopic == \E i \in 1..MaxTopics : HandleEditTopic(i)
\* The form is submitted; a submission that creates a topic is explored while the
\* collection is shorter than cap.
HandleFormSubmitUpTo(cap, raw, ok) ==
    /\ IF Len(topics.elems) < cap THEN TRUE
       ELSE IF editingTopicId # 0 THEN TRUE
       ELSE ~handleFormSubmit(topics, storage, editingTopicId, raw, now, now, ok).valid
    /\ HandleFormSubmit(raw, ok)

DoHandleFormSubmit ==
    \E raw \in RawForms, ok \in BOOLEAN : HandleFormSubmitUpTo(MaxTopics, raw, ok)
DoHandleDeleteTopic ==
    \E i \in 1..MaxTopics, confirmed \in BOOLEAN, ok \in BOOLEAN :
        HandleDeleteTopic(i, confirmed, ok)
DoSetTopicFilter == \E f \in TopicFilters : SetTopicFilter(f)

TopicsUINext ==
    \/ Tick
    \/ InitPage
    \/ ReloadPage
    \/ OpenModalAdd
    \/ DoHandleEditTopic
    \/ CloseModal
    \/ DoHandleFormSubmit
    \/ DoHandleDeleteTopic
    \/ DoSetTopicFilter

SpecTopicsUI == InitTopics /\ [][TopicsUINext]_vars

----------------------------------------------------------------------------
(* JourneyTracker (src/journey-tracker.jsx) *)

MaxJourneys == 1   \* the create branch is explored while journeys is shorter than this

JourneyStatuses == {"planning", "ongoing", "completed"}
FilterValues == {"all"} \cup JourneyStatuses

\* useState({...}) for formData (lines 33-40)
InitialFormData ==
    [title |-> "", startDate |-> "", endDate |-> "", EndofTask |-> "",
     status |-> "planning", notes |-> ""]

\* The object resetForm() passes to setFormData (lines 186-193)
ClearedFormData ==
    [title |-> "", startDate |-> "", endDate |-> "", destinations |-> "",
     status |-> "planning", notes |-> ""]

\* journey.f, which is undefined when the object has no property f
Get(item, f) == IF f \in DOMAIN item THEN item[f] ELSE UNDEFINED

\* The change events explored: <<name of the input, value typed or selected>>.
InputEvents ==
    { <<"title", "t">>, <<"status", "completed">>, <<"startDate", "2024-01-01">>,
      <<"endDate", "2024-01-31">>, <<"End of Task", "docker">> }

\* The inputs of the form that carry `required` and take a text (lines 306-378);
\* the select is required too, and always has one of its three options selected.
RequiredInputs == {"title", "startDate", "endDate", "End of Task"}

\* The property of formData an input takes its value from: value={formData.title}
\* and so on, and value={formData.destinations} for the input named "End of Task"
\* (line 372).
valueProp(name) == IF name = "End of Task" THEN "destinations" ELSE name

\* No required input holds a text: the form is not in the page, or was just put there.
NoInputs == [n \in RequiredInputs |-> ""]

\* The values the required inputs hold once React has rendered the form with
\* formData fd.  An input whose value property is a string is controlled and shows
\* that string, whatever was typed; one whose value property is undefined is
\* uncontrolled and shows what was typed in it since the form was put in the page.
\* before: the values held before the render; name, value: the change event, name
\* being "" when the render follows no change event.
renderInputs(fd, before, name, value) ==
    [n \in RequiredInputs |->
        IF Get(fd, valueProp(n)) # UNDEFINED THEN fd[valueProp(n)]
        ELSE IF n = name THEN value ELSE before[n]]

\* Constraint validation without the `required` attributes.
checkValidity_noRequired(inputs) == TRUE

\* The browser's constraint validation of the form when its submit button is
\* pressed (type="submit", line 400; the form has no noValidate, line 297): the
\* submit event is dispatched only when every required input holds a text.
checkValidity(inputs) == \A n \in RequiredInputs : inputs[n] # ""

NoPending == [set |-> FALSE, value |-> JSNull]

\* The load effect reading the key and never calling setJourneys.
loadEffect_noSet(store) ==
    LET savedJourneys == store[KeyJourneys]
    IN  IF Truthy(savedJourneys) /\ JSONparse(savedJourneys).threw
        THEN [threw |-> TRUE, pending |-> NoPending]
        ELSE [threw |-> FALSE, pending |-> NoPending]

\* The load effect (lines 66-71): what it queues with setJourneys, or that
\* JSON.parse threw inside it.
loadEffect(store) ==
    LET savedJourneys == store[KeyJourneys]
    IN  IF Truthy(savedJourneys)
        THEN IF JSONparse(savedJourneys).threw
             THEN [threw |-> TRUE, pending |-> NoPending]
             ELSE [threw |-> FALSE,
                   pending |-> [set |-> TRUE, value |-> JSONparse(savedJourneys).value]]
        ELSE [threw |-> FALSE, pending |-> NoPending]

\* The save effect (lines 82-84): ok = FALSE is localStorage.setItem throwing; there
\* is no try/catch, so the exception leaves the effect.
saveEffect(store, J, ok) ==
    [store |-> IF ok THEN [store EXCEPT ![KeyJourneys] = JSONstringify(J)] ELSE store,
     threw |-> ~ok]

\* setFormData(prev => ({ ...prev, [name]: value }))
handleInputChange(fd, name, value) ==
    [f \in DOMAIN fd \cup {name} |-> IF f = name THEN value ELSE fd[f]]

\* { id: Date.now(), ...formData, createdAt: new Date().toISOString() }: the clock
\* is read twice, t by Date.now() and u by new Date().
newJourney(fd, t, u) ==
    Merge(Merge([id |-> t], fd), [createdAt |-> toISOString(u)])

\* handleSubmit building a new journey from the form in the edit branch too.
submitJourneys_recreate(J, fd, eid, t, u) ==
    IF eid # 0
    THEN Arr([i \in 1..Len(J.elems) |->
                IF J.elems[i].id = eid THEN newJourney(fd, t, u) ELSE J.elems[i]])
    ELSE Arr(Append(J.elems, newJourney(fd, t, u)))

\* The array handleSubmit passes to setJourneys (lines 124-140); `if (editingId)`
\* is false for null, which 0 stands for.
submitJourneys(J, fd, eid, t, u) ==
    IF eid # 0
    THEN Arr([i \in 1..Len(J.elems) |->
                IF J.elems[i].id = eid THEN Merge(J.elems[i], fd) ELSE J.elems[i]])
    ELSE Arr(Append(J.elems, newJourney(fd, t, u)))

\* The object handleEdit passes to setFormData (lines 157-164)
editFormData(journey) ==
    [title |-> Get(journey, "title"), startDate |-> Get(journey, "startDate"),
     endDate |-> Get(journey, "endDate"), destinations |-> Get(journey, "destinations"),
     status |-> Get(journey, "status"), notes |-> Get(journey, "notes")]

\* journeys.filter(journey => journey.id !== id)
deleteJourney(J, id) == Arr(SelectSeq(J.elems, LAMBDA x : x.id # id))

\* filteredJourneys (lines 211-213)
filteredJourneys(J, flt) ==
    IF flt = "all" THEN J.elems
    ELSE SelectSeq(J.elems, LAMBDA x : Get(x, "status") = flt)

\* The component mounts (page load): every useState takes its initial value and
\* the first render is committed; the effects run next.
Mount ==
    /\ jPhase = "unmounted"
    /\ journeys' = Arr(<<>>)
    /\ formData' = InitialFormData
    /\ showForm' = FALSE
    /\ editingId' = 0
    /\ filter' = "all"
    /\ formInputs' = NoInputs
    /\ jPending' = NoPending
    /\ jAtMount' = storage[KeyJourneys]
    /\ jTouched' = FALSE
    /\ jPhase' = "loadEffect"
    /\ UNCHANGED <<now, storage, fails, topicsVars, uiVars, nodeVars>>

\* The load effect runs; an exception thrown in it is caught by nobody and React
\* unmounts the component tree.
LoadEffect ==
    /\ jPhase = "loadEffect"
    /\ LET r == loadEffect(storage)
       IN  /\ jPending' = r.pending
           /\ jPhase' = IF r.threw THEN "effectThrew" ELSE "saveEffect"
    /\ UNCHANGED <<now, storage, fails, topicsVars, uiVars, nodeVars, journeys, formData, showForm,
                   editingId, filter, formInputs, jAtMount, jTouched>>

\* The save effect runs with the journeys of the render that was committed.
SaveEffect(ok) ==
    /\ jPhase = "saveEffect"
    /\ CanWrite(ok)
    /\ LET r == saveEffect(storage, journeys, ok)
       IN  /\ storage' = r.store
           /\ jPhase' = IF r.threw THEN "effectThrew"
                        ELSE IF jPending.set THEN "rerender" ELSE "idle"
    /\ fails' = IF ok THEN fails ELSE fails + 1
    /\ UNCHANGED <<now, topicsVars, uiVars, nodeVars, journeys, jPending, formData, showForm, editingId,
                   filter, formInputs, jAtMount, jTouched>>

\* The state update queued by the load effect is rendered; a value that is not an
\* array makes the render throw (journeys.filter is not a function).
Rerender ==
    /\ jPhase = "rerender"
    /\ journeys' = jPending.value
    /\ jPending' = NoPending
    /\ jPhase' = IF jPending.value.type = "array" THEN "saveEffect" ELSE "renderThrew"
    /\ UNCHANGED <<now, storage, fails, topicsVars, uiVars, nodeVars, formData, showForm, editingId,
                   filter, formInputs, jAtMount, jTouched>>

\* The header button: setShowForm(!showForm).  The form is rendered only while
\* showForm holds ({showForm && ...}, line 290), so its inputs are new elements each
\* time it is shown.
ToggleForm ==
    /\ jPhase = "idle"
    /\ showForm' = ~showForm
    /\ formInputs' = IF showForm THEN NoInputs
                     ELSE renderInputs(formData, NoInputs, "", "")
    /\ UNCHANGED <<now, storage, fails, topicsVars, uiVars, nodeVars, journeys, jPending, jPhase, formData,
                   editingId, filter, jAtMount, jTouched>>

\* A change event of the input called name: handleInputChange, and the render of
\* the form with the new formData.
HandleInputChange(name, value) ==
    /\ jPhase = "idle"
    /\ showForm
    /\ formData' = handleInputChange(formData, name, value)
    /\ formInputs' = renderInputs(formData', formInputs, name, value)
    /\ UNCHANGED <<now, storage, fails, topicsVars, uiVars, nodeVars, journeys, jPending, jPhase, showForm,
                   editingId, filter, jAtMount, jTouched>>

\* The submit button of the form is pressed and the form is valid: handleSubmit
\* followed by resetForm; the new journeys array is rendered and the save effect is
\* due.  The create branch reads the clock twice, and the clock may advance between
\* the two readings; the edit branch does not read it.
SubmitForm ==
    /\ jPhase = "idle"
    /\ showForm
    /\ checkValidity(formInputs)
    /\ \E u \in now..MaxTime :
          /\ u # now => editingId = 0
          /\ journeys' = submitJourneys(journeys, formData, editingId, now, u)
          /\ now' = u
    /\ formData' = ClearedFormData
    /\ showForm' = FALSE
    /\ formInputs' = NoInputs
    /\ editingId' = 0
    /\ jTouched' = TRUE
    /\ jAtMount' = AbsentEntry
    /\ jPhase' = "saveEffect"
    /\ UNCHANGED <<storage, fails, topicsVars, uiVars, nodeVars, jPending, filter>>

\* The form is submitted; the create branch is explored while the collection is short.
HandleSubmit ==
    /\ editingId = 0 => Len(journeys.elems) < MaxJourneys
    /\ SubmitForm

\* The edit button of a displayed journey
HandleEdit(i) ==
    /\ jPhase = "idle"
    /\ i \in 1..Len(filteredJourneys(journeys, filter))
    /\ LET journey == filteredJourneys(journeys, filter)[i]
       IN  /\ formData' = editFormData(journey)
           /\ editingId' = journey.id
    /\ showForm' = TRUE
    /\ formInputs' = renderInputs(formData', IF showForm THEN formInputs ELSE NoInputs,
                                  "", "")
    /\ UNCHANGED <<now, storage, fails, topicsVars, uiVars, nodeVars, journeys, jPending, jPhase, filter,
                   jAtMount, jTouched>>

\* The delete button of a displayed journey
HandleDelete(i) ==
    /\ jPhase = "idle"
    /\ i \in 1..Len(filteredJourneys(journeys, filter))
    /\ journeys' = deleteJourney(journeys, filteredJourneys(journeys, filter)[i].id)
    /\ jTouched' = TRUE
    /\ jAtMount' = AbsentEntry
    /\ jPhase' = "saveEffect"
    /\ UNCHANGED <<now, storage, fails, topicsVars, uiVars, nodeVars, jPending, formData, showForm,
                   editingId, filter, formInputs>>

\* The form's Cancel button: resetForm()
ResetForm ==
    /\ jPhase = "idle"
    /\ showForm
    /\ formData' = ClearedFormData
    /\ showForm' = FALSE
    /\ formInputs' = NoInputs
    /\ editingId' = 0
    /\ UNCHANGED <<now, storage, fails, topicsVars, uiVars, nodeVars, journeys, jPending, jPhase, filter,
                   jAtMount, jTouched>>

SetFilter(f) ==
    /\ jPhase = "idle"
    /\ filter' = f
    /\ UNCHANGED <<now, storage, fails, topicsVars, uiVars, nodeVars, journeys, jPending, jPhase, formData,
                   showForm, editingId, formInputs, jAtMount, jTouched>>

\* The page is reloaded or closed: the component and its state are gone; it will
\* mount again.  The effects of the mount run in a task after the first commit, and
\* the update the load effect queues is rendered in a later task still, so the page
\* can go away between any two steps of the mount.  The save effect that follows a
\* handler is part of the task of the submit or click event (React 18 runs the
\* effects of a discrete event before the event returns), so the page cannot go
\* away between a handler and its save effect.
ReloadJourney ==
    /\ jPhase # "unmounted"
    /\ ~(jPhase = "saveEffect" /\ jTouched)
    /\ jPhase' = "unmounted"
    /\ journeys' = Arr(<<>>)
    /\ jPending' = NoPending
    /\ formData' = InitialFormData
    /\ showForm' = FALSE
    /\ editingId' = 0
    /\ filter' = "all"
    /\ formInputs' = NoInputs
    /\ jAtMount' = AbsentEntry
    /\ jTouched' = FALSE
    /\ UNCHANGED <<now, storage, fails, topicsVars, uiVars, nodeVars>>

DoSaveEffect == \E ok \in BOOLEAN : SaveEffect(ok)
DoInputChange == \E ev \in InputEvents : HandleInputChange(ev[1], ev[2])
DoEdit == \E i \in 1..MaxJourneys : HandleEdit(i)
DoDelete == \E i \in 1..MaxJourneys : HandleDelete(i)

InitJourney ==
    /\ now = 1
    /\ fails = 0
    /\ \E e \in InitialEntries :
          storage = [k \in Keys |-> IF k = KeyJourneys THEN e ELSE AbsentEntry]
    /\ TopicsIdle
    /\ JourneyIdle
    /\ NodesIdle

JourneyNext ==
    \/ Tick
    \/ Mount
    \/ LoadEffect
    \/ DoSaveEffect
    \/ Rerender
    \/ ToggleForm
    \/ DoInputChange
    \/ HandleSubmit
    \/ DoEdit
    \/ DoDelete
    \/ ResetForm
    \/ \E f \in FilterValues : SetFilter(f)
    \/ ReloadJourney

SpecJourney == InitJourney /\ [][JourneyNext]_vars

----------------------------------------------------------------------------
(* Both pages with collections of up to MaxOrder items.  A browser tab shows *)
(* one of the two pages: the topics page, with its handlers as the callers of  *)
(* createTopic, updateTopic and deleteTopic, or JourneyTracker.                *)

MaxOrder == 3   \* a create is explored while the collection is shorter than this

\* One of the two pages is about to load; an earlier visit has left the empty
\* collection under its key.
InitOrder ==
    /\ now = 1
    /\ fails = 0
    /\ \E key \in {KeyTopics, KeyJourneys} :
          storage = [k \in Keys |-> IF k = key THEN JSONstringify(Arr(<<>>))
                                    ELSE AbsentEntry]
    /\ TopicsIdle
    /\ JourneyIdle
    /\ NodesIdle

\* Every step of the topics page (TopicsUINext) or of JourneyTracker (JourneyNext),
\* the creates explored on collections of fewer than MaxOrder items.  The page that
\* is loaded is the one under whose key the earlier visit has left a collection:
\* neither page removes its key, and neither writes the other's.
OrderNext ==
    \/ Tick
    \/ /\ storage[KeyTopics].kind # "absent"
       /\ \/ InitPage
          \/ ReloadPage
          \/ OpenModalAdd
          \/ \E i \in 1..MaxOrder : HandleEditTopic(i)
          \/ CloseModal
          \/ \E raw \in RawForms, ok \in BOOLEAN :
                HandleFormSubmitUpTo(MaxOrder, raw, ok)
          \/ \E i \in 1..MaxOrder, confirmed \in BOOLEAN, ok \in BOOLEAN :
                HandleDeleteTopic(i, confirmed, ok)
          \/ DoSetTopicFilter
    \/ /\ storage[KeyJourneys].kind # "absent"
       /\ \/ Mount
          \/ LoadEffect
          \/ DoSaveEffect
          \/ Rerender
          \/ ToggleForm
          \/ DoInputChange
          \/ (editingId = 0 => Len(journeys.elems) < MaxOrder) /\ SubmitForm
          \/ \E i \in 1..MaxOrder : HandleEdit(i)
          \/ \E i \in 1..MaxOrder : HandleDelete(i)
          \/ ResetForm
          \/ \E f \in FilterValues : SetFilter(f)
          \/ ReloadJourney

SpecOrder == InitOrder /\ [][OrderNext]_vars

----------------------------------------------------------------------------
(* Nodes tracker (the guide in src/unnamed/part_000:1-573): numbers.            *)
(* A JavaScript number is an IEEE 754 binary64.  A positive one is modelled as  *)
(* [sig, exp]: sig is its 53-bit significand, most significant bit first and 1, *)
(* and its value is sig (read as an integer) times 2^exp.                       *)

SigBits == 53
LimbBits == SigBits \div 3 + 1   \* the exact product is computed on limbs of 18 bits

\* F applied to the value of x, which is computed once
ApplyTo(x, F(_)) == CHOOSE r \in {F(v) : v \in {x}} : TRUE

RECURSIVE Pow2(_)
Pow2(n) == IF n = 0 THEN 1 ELSE 2 * Pow2(n - 1)

\* 2^n mod t
RECURSIVE Pow2Mod(_, _)
Pow2Mod(n, t) ==
    IF n = 0 THEN 1 % t
    ELSE IF n % 2 = 1 THEN (2 * Pow2Mod(n - 1, t)) % t
    ELSE (Pow2Mod(n \div 2, t) * Pow2Mod(n \div 2, t)) % t

RECURSIVE BitsToInt(_)
BitsToInt(b) ==
    IF b = <<>> THEN 0 ELSE 2 * BitsToInt(SubSeq(b, 1, Len(b) - 1)) + b[Len(b)]

\* b + 1, for a sequence of bits b
Inc(b) ==
    IF \A i \in 1..Len(b) : b[i] = 1
    THEN [i \in 1..(Len(b) + 1) |-> IF i = 1 THEN 1 ELSE 0]
    ELSE LET low == CHOOSE i \in 1..Len(b) :
                        b[i] = 0 /\ \A j \in (i + 1)..Len(b) : b[j] = 1
         IN  [i \in 1..Len(b) |-> IF i < low THEN b[i] ELSE IF i = low THEN 1 ELSE 0]

\* The significand after a rounding carried it to 2^53: the last bit is dropped.
Normalise(sig, exp) ==
    IF Len(sig) > SigBits
    THEN [sig |-> SubSeq(sig, 1, SigBits), exp |-> exp + (Len(sig) - SigBits)]
    ELSE [sig |-> sig, exp |-> exp]

\* The least k with c * 2^k >= t
RECURSIVE NormShift(_, _, _)
NormShift(c, t, k) == IF c * Pow2(k) >= t THEN k ELSE NormShift(c, t, k + 1)

\* (c * 2^n) mod t
Remainder(c, t, n) == (c * Pow2Mod(n, t)) % t

\* The value sig * 2^exp, of which rem / t of a unit in the last place is still
\* left (rem = 0 and t = 1 when nothing is), rounded to nearest, ties to even
RoundQuotient(sig, exp, rem, t) ==
    IF 2 * rem > t \/ (2 * rem = t /\ sig[SigBits] = 1)
    THEN Normalise(Inc(sig), exp)
    ELSE Normalise(sig, exp)

\* The quotient of c * 2^k by t, with t <= c * 2^k < 2t: bit j follows from the
\* remainder of c * 2^(k + j - 2)
QuotientBits(c, t, k) ==
    [j \in 1..SigBits |-> IF j = 1 THEN 1 ELSE (2 * Remainder(c, t, k + j - 2)) \div t]

\* completed / total for 0 < c <= t
DivideShifted(c, t, k) ==
    ApplyTo(QuotientBits(c, t, k),
            LAMBDA sig : RoundQuotient(sig, 0 - k - (SigBits - 1),
                                       Remainder(c, t, k + SigBits - 1), t))

Divide(c, t) == DivideShifted(c, t, NormShift(c, t, 0))

\* The bits, most significant first, of p2 * 2^36 + p1 * 2^18 + p0 (p0, p1 < 2^18)
LimbsToBits(p0, p1, p2, top) ==
    [i \in 1..(2 * LimbBits + top) |->
        LET j == 2 * LimbBits + top - i
        IN  IF j < LimbBits THEN (p0 \div Pow2(j)) % 2
            ELSE IF j < 2 * LimbBits THEN (p1 \div Pow2(j - LimbBits)) % 2
            ELSE (p2 \div Pow2(j - 2 * LimbBits)) % 2]

\* The number of bits of n > 0
BitLength(n) == CHOOSE k \in 1..31 : Pow2(k - 1) <= n /\ (k = 31 \/ n < Pow2(k))

\* The limbs of 100 * (hi * 2^36 + mid * 2^18 + lo), lowest first, with the carries
Product100Limbs(lo, mid, hi, base) ==
    << (100 * lo) % base,
       (100 * mid + (100 * lo) \div base) % base,
       100 * hi + (100 * mid + (100 * lo) \div base) \div base >>

\* The limbs of sig, lowest first
Limbs(sig) ==
    << BitsToInt(SubSeq(sig, SigBits - LimbBits + 1, SigBits)),
       BitsToInt(SubSeq(sig, SigBits - 2 * LimbBits + 1, SigBits - LimbBits)),
       BitsToInt(SubSeq(sig, 1, SigBits - 2 * LimbBits)) >>

\* The bits of the exact product 100 * sig, most significant first
Product100(sig) ==
    ApplyTo(Limbs(sig), LAMBDA l :
        ApplyTo(Product100Limbs(l[1], l[2], l[3], Pow2(LimbBits)), LAMBDA p :
            LimbsToBits(p[1], p[2], p[3], BitLength(p[3]))))

\* The integer `product` times 2^exp, rounded to SigBits bits: nearest, ties to even
RoundProduct(product, exp) ==
    IF /\ product[SigBits + 1] = 1
       /\ \/ \E i \in (SigBits + 2)..Len(product) : product[i] = 1
          \/ product[SigBits] = 1
    THEN Normalise(Inc(SubSeq(product, 1, SigBits)), exp + Len(product) - SigBits)
    ELSE Normalise(SubSeq(product, 1, SigBits), exp + Len(product) - SigBits)

\* x * 100
Times100(x) ==
    ApplyTo(Product100(x.sig), LAMBDA product : RoundProduct(product, x.exp))

\* Math.round(x) for 0 < x < 2^31: floor(x + 0.5), computed exactly
MathRound(x) ==
    LET frac == 0 - x.exp
    IN  IF frac <= 0 THEN BitsToInt(x.sig) * Pow2(x.exp)
        ELSE IF frac > SigBits THEN 0
        ELSE BitsToInt(SubSeq(x.sig, 1, SigBits - frac)) + x.sig[SigBits - frac + 1]

\* const percent = total ? Math.round((completed / total) * 100) : 0;
completionPercent(total, completed) ==
    IF total # 0
    THEN IF completed = 0 THEN 0
         ELSE ApplyTo(Divide(completed, total), LAMBDA quotient :
                  ApplyTo(Times100(quotient), LAMBDA product : MathRound(product)))
    ELSE 0

----------------------------------------------------------------------------
(* Nodes tracker: the percentage of the progress bar *)

MaxTotal == 40   \* the collections explored hold up to this many nodes

\* The percentage render() computes, by total and completed
percentOf == [t \in 0..MaxTotal |-> [c \in 0..t |-> completionPercent(t, c)]]

----------------------------------------------------------------------------
(* Nodes tracker: the collection, the form and the import *)

MaxNodes == 2   \* the create branch is explored while the collection is shorter
MaxCards == 2   \* a submission is explored while the list holds fewer cards than this

\* The data object the submit listener builds from the form (lines 137-141).
NodePayloads ==
    { [title |-> "go", status |-> "completed"],
      [title |-> "k8s", status |-> "ongoing"] }

\* `x || []` on a parsed value: null, 0 and "" are falsy; arrays and objects are not.
Falsy(v) == v.type \in {"null", "number", "string"}

\* JSON.parse(localStorage.getItem('mastery_os_v3')) || []: getItem's null parses
\* to null, and every falsy value gives way to [].
loadNodes(store) ==
    LET e == store[KeyNodes]
        p == JSONparse(e)
    IN  IF e.kind = "absent" THEN [threw |-> FALSE, value |-> Arr(<<>>)]
        ELSE IF ~p.threw /\ Falsy(p.value) THEN [threw |-> FALSE, value |-> Arr(<<>>)]
        ELSE p

\* localStorage.setItem('mastery_os_v3', JSON.stringify(journeys)): ok = FALSE is
\* setItem throwing.
saveNodes(store, N, ok) ==
    [store |-> IF ok THEN [store EXCEPT ![KeyNodes] = JSONstringify(N)] ELSE store,
     threw |-> ~ok]

\* The submit listener's change of `journeys` (lines 143-150); editId = 0 stands for
\* the empty value of the hidden input.  With no node of that id, findIndex gives
\* -1 and the assignment journeys[-1] = ... adds no element to the array.
submitNode(N, editId, data, t) ==
    IF editId # 0
    THEN LET idx == findIndex(N, editId)
         IN  IF idx # 0 THEN Arr([N.elems EXCEPT ![idx] = Merge(N.elems[idx], data)])
             ELSE N
    ELSE Arr(Append(N.elems, Merge([id |-> t], data)))

\* total and completed as render() counts them (lines 181-183)
renderCounts(N) ==
    [total |-> Len(N.elems),
     completed |-> Cardinality({i \in 1..Len(N.elems) :
                                  Get(N.elems[i], "status") = "completed"})]

\* The lower-case letter of each upper-case letter of the basic Latin alphabet
LowerCaseOf ==
    LET upper == "ABCDEFGHIJKLMNOPQRSTUVWXYZ"
        lower == "abcdefghijklmnopqrstuvwxyz"
    IN  [c \in {SubSeq(upper, k, k) : k \in 1..Len(upper)} |->
            SubSeq(lower, CHOOSE k \in 1..Len(upper) : SubSeq(upper, k, k) = c,
                          CHOOSE k \in 1..Len(upper) : SubSeq(upper, k, k) = c)]

\* String.prototype.toLowerCase()
RECURSIVE toLowerCase(_)
toLowerCase(s) ==
    IF s = "" THEN ""
    ELSE (IF SubSeq(s, 1, 1) \in DOMAIN LowerCaseOf THEN LowerCaseOf[SubSeq(s, 1, 1)]
          ELSE SubSeq(s, 1, 1))
            \o toLowerCase(SubSeq(s, 2, Len(s)))

\* String.prototype.includes(q): q occurs in s as a substring
includes(s, q) ==
    \E i \in 0..(Len(s) - Len(q)) : SubSeq(s, i + 1, i + Len(q)) = q

\* render() (lines 171-199) with the search input holding `input`: the callback of
\* journeys.filter reads j.title.toLowerCase() for every element, which throws a
\* TypeError when an element has no title; nothing of the page is changed then.
render(N, f, input) ==
    LET searchQuery == toLowerCase(input)
        matches(j) ==
            /\ f = "all" \/ Get(j, "status") = f
            /\ includes(toLowerCase(j.title), searchQuery)
    IN  IF \E i \in 1..Len(N.elems) : Get(N.elems[i], "title") = UNDEFINED
        THEN [threw |-> TRUE, filtered |-> <<>>, counts |-> [total |-> 0, completed |-> 0]]
        ELSE [threw |-> FALSE, filtered |-> SelectSeq(N.elems, matches),
              counts |-> renderCounts(N)]

\* render() of the corrected build: the render() above with the filter callback of
\* src/CHANGELOG.md:60-66, which reads (j.title || '') and (j.destinations || '')
\* and looks for the query in both; an absent field counts as the empty string and
\* nothing throws.
renderV31(N, f, input) ==
    LET searchQuery == toLowerCase(input)
        text(j, field) == IF Get(j, field) = UNDEFINED THEN "" ELSE j[field]
        matches(j) ==
            /\ f = "all" \/ Get(j, "status") = f
            /\ \/ includes(toLowerCase(text(j, "title")), searchQuery)
               \/ includes(toLowerCase(text(j, "destinations")), searchQuery)
    IN  [threw |-> FALSE, filtered |-> SelectSeq(N.elems, matches),
         counts |-> renderCounts(N)]

\* What a call of render() leaves on the page, result being what the call computed.
\* The cards of the filtered items are appended to the cards the list holds
\* (listEl.appendChild, lines 191-195).
Rendered(result) ==
    \E r \in {result} :
        /\ listed' = IF r.threw THEN [listed EXCEPT !.threw = TRUE]
                     ELSE [threw |-> FALSE, list |-> listed.list \o r.filtered]
        /\ counts' = IF r.threw THEN counts ELSE r.counts
        /\ percent' = IF r.threw THEN percent
                      ELSE percentOf[r.counts.total][r.counts.completed]

\* An element of an imported array that does not carry the required title.
lacksTitle(item) == Get(item, "title") \in {UNDEFINED, ""}

\* The documents a user may pick for the import.
ImportDocs ==
    { TextOf("corrupt"), TextOf("object"), TextOf("null"),
      [kind |-> "array", elems |-> <<>>],
      [kind |-> "array", elems |-> <<[id |-> 7, title |-> "rust", status |-> "planning"]>>],
      [kind |-> "array", elems |-> <<[id |-> 7, title |-> "rust", status |-> "planning"],
                                     [id |-> 8, status |-> "completed"]>>] }

\* import replacing the collection without asking for a confirmation.
importData_noConfirm(N, store, doc, confirmed, ok) ==
    LET p == JSONparse(doc)
    IN  IF p.threw
        THEN [nodes |-> N, store |-> store, outcome |-> "parseError", asked |-> FALSE,
              count |-> 0]
        ELSE IF p.value.type # "array"
                  \/ \E i \in 1..Len(p.value.elems) : lacksTitle(p.value.elems[i])
        THEN [nodes |-> N, store |-> store, outcome |-> "validationError",
              asked |-> FALSE, count |-> 0]
        ELSE [nodes |-> p.value, store |-> saveNodes(store, p.value, ok).store,
              outcome |-> "imported", asked |-> FALSE, count |-> Len(p.value.elems)]

\* import testing only that the document is an array, not its elements.
importData_noTitleCheck(N, store, doc, confirmed, ok) ==
    LET p == JSONparse(doc)
    IN  IF p.threw
        THEN [nodes |-> N, store |-> store, outcome |-> "parseError", asked |-> FALSE,
              count |-> 0]
        ELSE IF p.value.type # "array"
        THEN [nodes |-> N, store |-> store, outcome |-> "validationError",
              asked |-> FALSE, count |-> 0]
        ELSE IF ~confirmed
        THEN [nodes |-> N, store |-> store, outcome |-> "declined", asked |-> TRUE,
              count |-> 0]
        ELSE [nodes |-> p.value, store |-> saveNodes(store, p.value, ok).store,
              outcome |-> "imported", asked |-> TRUE, count |-> Len(p.value.elems)]

\* import(rawData): parse, validate the whole document, ask for the confirmation,
\* and only then replace the collection, persist it and report the count.
importData(N, store, doc, confirmed, ok) ==
    LET p == JSONparse(doc)
    IN  IF p.threw
        THEN [nodes |-> N, store |-> store, outcome |-> "parseError", asked |-> FALSE,
              count |-> 0]
        ELSE IF p.value.type # "array"
                  \/ \E i \in 1..Len(p.value.elems) : lacksTitle(p.value.elems[i])
        THEN [nodes |-> N, store |-> store, outcome |-> "validationError",
              asked |-> FALSE, count |-> 0]
        ELSE IF ~confirmed
        THEN [nodes |-> N, store |-> store, outcome |-> "declined", asked |-> TRUE,
              count |-> 0]
        ELSE [nodes |-> p.value, store |-> saveNodes(store, p.value, ok).store,
              outcome |-> "imported", asked |-> TRUE, count |-> Len(p.value.elems)]

\* The form is submitted: the change of `journeys`, saveAndRender(), resetForm().
\* When setItem throws, the listener ends there and render() does not run.
NodeSubmit(editId, data, ok) ==
    /\ CanWrite(ok)
    /\ editId = 0 => Len(nodes.elems) < MaxNodes
    /\ Len(listed.list) < MaxCards
    /\ nodes' = submitNode(nodes, editId, data, now)
    /\ storage' = saveNodes(storage, nodes', ok).store
    /\ fails' = IF ok THEN fails ELSE fails + 1
    /\ IF ok THEN Rendered(render(nodes', nodeFilter, searchInput))
       ELSE UNCHANGED <<listed, counts, percent>>
    /\ lastNode' = [NoNode EXCEPT !.op = "submit",
                                  !.outcome = IF ok THEN "saved" ELSE "threw"]
    /\ UNCHANGED <<now, topicsVars, journeyVars, uiVars, nodeFilter, searchInput,
                   searchDebounceTimer, timers, quiet, burst>>

\* A file is chosen for the import and the confirmation dialog, if it comes up, is
\* answered.  The page is rendered when the collection was replaced and persisted.
ImportData(doc, confirmed, ok) ==
    /\ Len(listed.list) < MaxCards
    /\ LET r == importData(nodes, storage, doc, confirmed, ok)
       IN  /\ IF r.outcome = "imported" THEN CanWrite(ok) ELSE ok
           /\ r.asked \/ confirmed
           /\ nodes' = r.nodes
           /\ storage' = r.store
           /\ fails' = IF r.outcome = "imported" /\ ~ok THEN fails + 1 ELSE fails
           /\ lastNode' = [op |-> "import", outcome |-> r.outcome, asked |-> r.asked,
                           confirmed |-> r.asked /\ confirmed, count |-> r.count]
           /\ IF r.outcome = "imported" /\ ok
              THEN Rendered(render(r.nodes, nodeFilter, searchInput))
              ELSE UNCHANGED <<listed, counts, percent>>
    /\ UNCHANGED <<now, topicsVars, journeyVars, uiVars, nodeFilter, searchInput,
                   searchDebounceTimer, timers, quiet, burst>>

\* The page is loaded again: the script starts over (lines 123-124) on a new page,
\* whose list and search input are empty and which has no timer pending; it reads
\* the key into `journeys`, sets currentFilter to 'all' and does not call render().
\* When JSON.parse throws, the script ends at its first line.
ReloadNodes ==
    /\ ~loadNodes(storage).threw
    /\ loadNodes(storage).value.type = "array"
    /\ nodes' = loadNodes(storage).value
    /\ nodeFilter' = "all"
    /\ searchInput' = ""
    /\ listed' = [threw |-> FALSE, list |-> <<>>]
    /\ counts' = [total |-> 0, completed |-> 0]
    /\ percent' = 0
    /\ searchDebounceTimer' = 0
    /\ timers' = {}
    /\ quiet' = 0
    /\ burst' = [keys |-> 0, renders |-> 0]
    /\ lastNode' = NoNode
    /\ UNCHANGED <<now, storage, fails, topicsVars, journeyVars, uiVars>>

DoNodeSubmit ==
    \E editId \in 0..MaxTime, data \in NodePayloads, ok \in BOOLEAN :
        NodeSubmit(editId, data, ok)
DoImportData ==
    \E doc \in ImportDocs, confirmed \in BOOLEAN, ok \in BOOLEAN :
        ImportData(doc, confirmed, ok)

InitNodes ==
    /\ now = 1
    /\ fails = 0
    /\ \E e \in {AbsentEntry, TextOf("null"), [kind |-> "array", elems |-> <<>>]} :
          storage = [k \in Keys |-> IF k = KeyNodes THEN e ELSE AbsentEntry]
    /\ TopicsIdle
    /\ JourneyIdle
    /\ NodesIdle

NodesNext ==
    \/ Tick
    \/ DoNodeSubmit
    \/ DoImportData
    \/ ReloadNodes

SpecNodes == InitNodes /\ [][NodesNext]_vars

----------------------------------------------------------------------------
(* Nodes tracker: the search input.  In the build of the guide (part_000) the   *)
(* input event calls render(); in the corrected build (src/CHANGELOG.md) it    *)
(* calls debouncedSearch(), whose timer calls the corrected render().          *)

MaxKeys == 3        \* keystrokes in the search input in one behaviour
DebounceMs == 300   \* the delay debouncedSearch passes to setTimeout
TickMs == 100       \* the clock of the timers advances in steps of this length

\* What the key 'mastery_os_v3' holds when the script starts: nodes saved by the
\* form, a node saved without destinations, a node saved without a title.
SearchEntries ==
    { [kind |-> "array",
       elems |-> <<[id |-> 1, title |-> "Go Basics", status |-> "completed",
                    destinations |-> "Docker"],
                   [id |-> 2, title |-> "Rust", status |-> "ongoing",
                    destinations |-> "Go, WASM"]>>],
      [kind |-> "array",
       elems |-> <<[id |-> 1, title |-> "React", status |-> "planning"],
                   [id |-> 2, title |-> "Go", status |-> "completed",
                    destinations |-> "Docker"]>>],
      [kind |-> "array",
       elems |-> <<[id |-> 1, status |-> "planning", destinations |-> "go"],
                   [id |-> 2, title |-> "Rust", status |-> "ongoing",
                    destinations |-> ""]>>] }

\* The texts the search input may hold after a keystroke.
SearchTexts == {"", "go", "GO", "rust"}

\* debouncedSearch without its clearTimeout.
debouncedSearch_noClear(pending, timerId, newId) ==
    [timers |-> pending \cup {[id |-> newId, left |-> DebounceMs]},
     searchDebounceTimer |-> newId]

\* debouncedSearch(): clearTimeout(searchDebounceTimer), then
\* searchDebounceTimer = setTimeout(() => render(), 300); newId is the id that
\* setTimeout returns.
debouncedSearch(pending, timerId, newId) ==
    [timers |-> {t \in pending : t.id # timerId}
                    \cup {[id |-> newId, left |-> DebounceMs]},
     searchDebounceTimer |-> newId]

\* Build of the guide: a keystroke changes the value of the search input to text
\* and the input event calls render() ("render() called on every keystroke",
\* src/CHANGELOG.md:137): every keystroke of a burst causes a render.
SearchInput(text) ==
    /\ burst.keys < MaxKeys
    /\ text # searchInput
    /\ searchInput' = text
    /\ Rendered(render(nodes, nodeFilter, text))
    /\ lastNode' = [NoNode EXCEPT !.op = "search",
                                  !.outcome = IF listed'.threw THEN "threw"
                                              ELSE "rendered"]
    /\ burst' = [keys |-> burst.keys + 1, renders |-> burst.renders + 1]
    /\ UNCHANGED <<now, storage, fails, topicsVars, journeyVars, uiVars, nodes,
                   nodeFilter, searchDebounceTimer, timers, quiet>>

\* Corrected build: a keystroke changes the value of the search input to text; the
\* input event calls debouncedSearch().  The keystroke belongs to the burst of the one before it when
\* the timer that one started has not fired yet.
SearchKeystroke(text) ==
    /\ searchDebounceTimer < MaxKeys
    /\ text # searchInput
    /\ searchInput' = text
    /\ LET d == debouncedSearch(timers, searchDebounceTimer, searchDebounceTimer + 1)
       IN  /\ timers' = d.timers
           /\ searchDebounceTimer' = d.searchDebounceTimer
    /\ quiet' = 0
    /\ burst' = IF \E t \in timers : t.id = searchDebounceTimer
                THEN [burst EXCEPT !.keys = @ + 1]
                ELSE [keys |-> 1, renders |-> 0]
    /\ lastNode' = [NoNode EXCEPT !.op = "keystroke"]
    /\ UNCHANGED <<now, storage, fails, topicsVars, journeyVars, uiVars, nodes,
                   nodeFilter, counts, percent, listed>>

\* Time passes while no pending timer is due.
AdvanceTime ==
    /\ \A t \in timers : t.left > 0
    /\ timers # {} \/ quiet < DebounceMs
    /\ timers' = {[t EXCEPT !.left = IF @ > TickMs THEN @ - TickMs ELSE 0] :
                     t \in timers}
    /\ quiet' = IF quiet + TickMs < DebounceMs THEN quiet + TickMs ELSE DebounceMs
    /\ lastNode' = NoNode
    /\ UNCHANGED <<now, storage, fails, topicsVars, journeyVars, uiVars, nodes,
                   nodeFilter, counts, percent, searchInput, listed,
                   searchDebounceTimer, burst>>

\* A timer that is due runs its callback: () => render(), the render() of the
\* corrected build.
FireTimer ==
    /\ \E t \in timers :
          /\ t.left = 0
          /\ timers' = timers \ {t}
    /\ Rendered(renderV31(nodes, nodeFilter, searchInput))
    /\ burst' = [burst EXCEPT !.renders = @ + 1]
    /\ lastNode' = [NoNode EXCEPT !.op = "search",
                                  !.outcome = IF listed'.threw THEN "threw"
                                              ELSE "rendered"]
    /\ UNCHANGED <<now, storage, fails, topicsVars, journeyVars, uiVars, nodes,
                   nodeFilter, searchInput, searchDebounceTimer, quiet>>

\* The script has started over what the key holds; nothing is typed yet.
InitSearch ==
    /\ now = 1
    /\ fails = 0
    /\ \E e \in SearchEntries :
          /\ storage = [k \in Keys |-> IF k = KeyNodes THEN e ELSE AbsentEntry]
          /\ nodes = Arr(e.elems)
    /\ nodeFilter \in {"all", "planning", "ongoing", "completed"}
    /\ lastNode = NoNode
    /\ counts = [total |-> 0, completed |-> 0]
    /\ percent = 0
    /\ SearchIdle
    /\ TopicsIdle
    /\ JourneyIdle

\* Build of the guide: every keystroke renders.
SearchNext == \E text \in SearchTexts : SearchInput(text)

SpecSearch == InitSearch /\ [][SearchNext]_vars

\* The script has started over a collection of up to MaxTotal nodes that earlier
\* visits have saved through the form, some of them completed; render() has not
\* been called yet, so the bar and the list are as the page's markup has them.
InitPercent ==
    /\ now = 1
    /\ fails = 0
    /\ \E n \in 0..MaxTotal : \E c \in 0..n :
          LET saved == [i \in 1..n |->
                          [id |-> i, title |-> IF i % 2 = 1 THEN "go" ELSE "k8s",
                           status |-> IF i <= c THEN "completed" ELSE "ongoing"]]
          IN  /\ storage = [k \in Keys |->
                              IF k = KeyNodes THEN [kind |-> "array", elems |-> saved]
                              ELSE AbsentEntry]
              /\ nodes = Arr(saved)
    /\ nodeFilter = "all"
    /\ lastNode = NoNode
    /\ counts = [total |-> 0, completed |-> 0]
    /\ percent = 0
    /\ SearchIdle
    /\ TopicsIdle
    /\ JourneyIdle

\* Build of the guide: what calls render() is a submission of the form and a
\* keystroke in the search input.
PercentNext ==
    \/ Tick
    \/ DoNodeSubmit
    \/ \E text \in {"", "go"} : SearchInput(text)
    \/ ReloadNodes

SpecPercent == InitPercent /\ [][PercentNext]_vars

\* Corrected build: keystrokes, the passing of time and the timer's callback.
DebounceNext ==
    \/ \E text \in SearchTexts : SearchKeystroke(text)
    \/ AdvanceTime
    \/ FireTimer

\* The browser lets time pass and runs the callbacks of the timers that are due.
SpecSearchLive ==
    InitSearch /\ [][DebounceNext]_vars /\ WF_vars(AdvanceTime) /\ WF_vars(FireTimer)

----------------------------------------------------------------------------
(* Properties *)

HasId(T, id) == \E i \in 1..Len(T.elems) : T.elems[i].id = id
IsPartOf(item, T) == \E j \in 1..Len(T.elems) : T.elems[j] = item

\* C1: after any sequence of createTopic calls, whatever the clock does between
\* them, the ids of the topics are pairwise distinct.
\* Fails: two calls in the same millisecond read the same Date.now().
C1_UniqueIds ==
    tpc = "ready" =>
        \A i, j \in 1..Len(topics.elems) :
            i # j => topics.elems[i].id # topics.elems[j].id

\* C2: updateTopic(id, data) on an id that exists changes one item with that id and
\* nothing else: the item keeps every field not named in data (id and createdAt
\* among them), takes data's values for the named fields, stays at its position, and
\* every other item is unchanged.
C2_MergeChangesOnlyNamedFields ==
    [][ (lastOp'.op = "update" /\ lastOp'.ret = "item") =>
          /\ Len(topics'.elems) = Len(topics.elems)
          /\ \E k \in 1..Len(topics.elems) :
                /\ topics.elems[k].id = lastOp'.id
                /\ \A i \in 1..Len(topics.elems) :
                      i # k => topics'.elems[i] = topics.elems[i]
                /\ DOMAIN topics'.elems[k] =
                      DOMAIN topics.elems[k] \cup DOMAIN lastOp'.data
                /\ \A f \in DOMAIN topics.elems[k] \ DOMAIN lastOp'.data :
                      topics'.elems[k][f] = topics.elems[k][f]
                /\ \A f \in DOMAIN lastOp'.data :
                      topics'.elems[k][f] = lastOp'.data[f] ]_vars

\* A partial update {status: 'completed', progress: 100} has been applied to the
\* second of two topics, which kept its id, name, category and notes.
C2_Witness ==
    /\ lastOp.op = "update" /\ lastOp.ret = "item"
    /\ DOMAIN lastOp.data = {"status", "progress"}
    /\ Len(topics.elems) = 2
    /\ topics.elems[1].id # lastOp.id
    /\ topics.elems[2].id = lastOp.id
    /\ topics.elems[2].status = "completed"
    /\ topics.elems[2].progress = 100
    /\ topics.elems[2].name = "b"
    /\ topics.elems[2].category = "db"
    /\ topics.elems[2].notes = "n"

\* C3: deleteTopic(id) for an id that is present removes exactly one item.
\* Fails once two topics carry the same id (C1): filter drops both.
C3_DeleteRemovesExactlyOne ==
    [][ (lastOp'.op = "delete" /\ lastOp'.ret = "true") =>
          Len(topics'.elems) = Len(topics.elems) - 1 ]_vars

\* C5: after createTopic, updateTopic with a found id, or deleteTopic that removed
\* something, saveTopics was called, and when its write succeeded the value under
\* 'learningTopics' parses to exactly the in-memory topics.
C5_PersistedEqualsMemory ==
    (lastOp.op = "create" \/ lastOp.ret = "item" \/ lastOp.ret = "true") =>
        /\ lastOp.wrote
        /\ lastOp.writeOk =>
              /\ ~JSONparse(storage[KeyTopics]).threw
              /\ JSONparse(storage[KeyTopics]).value = topics

\* An update has been written and storage holds both topics, the updated one included.
C5_Witness ==
    /\ lastOp.op = "update" /\ lastOp.writeOk
    /\ Len(topics.elems) = 2
    /\ storage[KeyTopics].kind = "array"
    /\ storage[KeyTopics].elems = topics.elems
    /\ \E i \in 1..2 : topics.elems[i].status = "completed"

\* C6: when the write inside saveTopics fails, nothing is thrown out of the
\* operation, the value in storage is what it was, the page keeps running, and the
\* in-memory collection carries the mutation: a create adds the new topic and keeps
\* every topic there was, an update gives the topic the payload's values and keeps
\* the length, a delete leaves no topic with that id and keeps the others.
C6_FailedSaveIsContained ==
    [][ (lastOp'.wrote /\ ~lastOp'.writeOk) =>
          /\ ~lastOp'.raised
          /\ storage' = storage
          /\ tpc' = "ready"
          /\ topics'.type = "array"
          /\ lastOp'.op = "create" =>
                /\ Len(topics'.elems) = Len(topics.elems) + 1
                /\ \A i \in 1..Len(topics.elems) : IsPartOf(topics.elems[i], topics')
                /\ \E j \in 1..Len(topics'.elems) :
                      /\ topics'.elems[j].id = lastOp'.id
                      /\ topics'.elems[j].name = lastOp'.data.name
          /\ lastOp'.op = "update" =>
                /\ Len(topics'.elems) = Len(topics.elems)
                /\ \E k \in 1..Len(topics'.elems) :
                      /\ topics'.elems[k].id = lastOp'.id
                      /\ \A f \in DOMAIN lastOp'.data :
                            topics'.elems[k][f] = lastOp'.data[f]
          /\ lastOp'.op = "delete" =>
                /\ ~HasId(topics', lastOp'.id)
                /\ Len(topics'.elems) < Len(topics.elems)
                /\ \A i \in 1..Len(topics.elems) :
                      topics.elems[i].id # lastOp'.id =>
                          IsPartOf(topics.elems[i], topics') ]_vars

\* A delete whose write failed: the topic is gone from memory, storage still has it.
C6_Witness ==
    /\ lastOp.op = "delete" /\ lastOp.wrote /\ ~lastOp.writeOk
    /\ lastOp.alerted
    /\ tpc = "ready"
    /\ topics = Arr(<<>>)
    /\ storage[KeyTopics].kind = "array"
    /\ Len(storage[KeyTopics].elems) = 1

\* C8: whatever string is stored under 'learningTopics', loadTopics returns a
\* sequence, so once init has run topics is a sequence and init has not raised.
\* Fails: JSON.parse of 'null', '{}', '5' or '"abc"' succeeds and loadTopics returns
\* that value; renderTopics / updateStatistics then throw.
C8_LoadReturnsSequence ==
    tpc # "loading" => (topics.type = "array" /\ tpc # "crashed")

\* C9: updateTopic with an id that no topic has returns null, leaves the collection
\* as it was and does not call saveTopics.
C9_UpdateNotFound ==
    [][ (lastOp'.op = "update" /\ ~HasId(topics, lastOp'.id)) =>
          /\ lastOp'.ret = "null"
          /\ topics' = topics
          /\ ~lastOp'.wrote
          /\ storage' = storage ]_vars

\* updateTopic returned null while the collection holds a topic with another id.
C9_Witness ==
    /\ lastOp.op = "update" /\ lastOp.ret = "null"
    /\ Len(topics.elems) >= 1
    /\ ~HasId(topics, lastOp.id)

\* C10: deleteTopic with an id that no topic has returns false, leaves the
\* collection as it was and does not call saveTopics; it returns true exactly when
\* an item was removed, and it calls saveTopics exactly then.
C10_DeleteReportsRemoval ==
    [][ lastOp'.op = "delete" =>
          /\ ~HasId(topics, lastOp'.id) =>
                /\ lastOp'.ret = "false"
                /\ topics' = topics
                /\ ~lastOp'.wrote
                /\ storage' = storage
          /\ lastOp'.ret = "true" <=> Len(topics'.elems) < Len(topics.elems)
          /\ lastOp'.wrote <=> Len(topics'.elems) < Len(topics.elems) ]_vars

\* deleteTopic returned false while the collection holds a topic with another id.
C10_Witness ==
    /\ lastOp.op = "delete" /\ lastOp.ret = "false" /\ ~lastOp.wrote
    /\ Len(topics.elems) >= 1
    /\ ~HasId(topics, lastOp.id)

\* C4: when the component has mounted over a collection C stored under 'journeys'
\* and its effects and re-renders are done, and no handler has run yet, the journeys
\* state is C and the stored value is C again.
C4_ReloadRestoresCollection ==
    (jPhase = "idle" /\ ~jTouched /\ jAtMount.kind = "array") =>
        /\ journeys = Arr(jAtMount.elems)
        /\ storage[KeyJourneys] = jAtMount

\* The component has come back from a reload with the journey that was added and
\* then edited to 'completed' before the reload.
C4_Witness ==
    /\ jPhase = "idle" /\ ~jTouched
    /\ jAtMount.kind = "array"
    /\ Len(jAtMount.elems) >= 1
    /\ jAtMount.elems[1].status = "completed"
    /\ jAtMount.elems[1].title = "t"
    /\ journeys = Arr(jAtMount.elems)
    /\ storage[KeyJourneys] = jAtMount

\* C7: no exception thrown by the storage layer leaves the load effect or the save
\* effect.
\* Fails: neither effect has a try/catch; JSON.parse of an unparsable value and
\* setItem on full or disabled storage throw out of the effect.
C7_EffectsNeverThrow ==
    jPhase # "effectThrew"

----------------------------------------------------------------------------
(* Form handling, import, the filtered view and the statistics *)

\* C11: when the form is submitted in edit mode and no topic has the id that
\* editingTopicId holds, the handler reports the condition: an alert is shown.
C11_EditNotFoundIsReported ==
    (lastUi.handler = "submit" /\ lastUi.valid /\ lastUi.editId # 0
        /\ lastUi.ret = "null")
    => (lastUi.alerted \/ lastOp.alerted)

\* C12: every journey of the JourneyTracker collection, all of which handleSubmit
\* created or edited, has a title that is not empty: the title input is required, so
\* the browser dispatches no submit event while it is empty, and handleSubmit, which
\* tests nothing itself, is never called with an empty title.
C12_SubmittedTitlesNonEmpty ==
    \A i \in 1..Len(journeys.elems) : Get(journeys.elems[i], "title") # ""

\* A journey has been created through the form, with the title that was typed.
C12_Witness ==
    /\ jTouched
    /\ Len(journeys.elems) = 1
    /\ journeys.elems[1].title = "t"
    /\ journeys.elems[1].id = now

\* The name input holds nothing but blanks, or no category is chosen.
MissingRequired(raw) ==
    \/ \A i \in 1..Len(raw.name) : raw.name[i] \in Whitespace
    \/ raw.category = ""

\* C13: a submit of the topics form whose name is empty after trimming, or whose
\* category is empty, leaves topics and the persisted value as they were, shows the
\* alert, keeps the modal open and keeps editingTopicId.
C13_InvalidSubmitChangesNothing ==
    [][ lastUi'.handler = "submit" =>
          \A raw \in RawForms, ok \in BOOLEAN :
              (MissingRequired(raw) /\ HandleFormSubmit(raw, ok))
              => /\ topics' = topics
                 /\ storage' = storage
                 /\ modalOpen'
                 /\ editingTopicId' = editingTopicId
                 /\ lastUi'.alerted ]_vars

C13_Witness ==
    /\ lastUi.handler = "submit"
    /\ ~lastUi.valid
    /\ lastUi.alerted
    /\ editingTopicId # 0
    /\ modalOpen
    /\ Len(topics.elems) > 0
    /\ storage[KeyTopics] = JSONstringify(topics)

\* The document fails the validation of the import: it is no JSON array, or one
\* of its elements has no title.
InvalidDoc(doc) ==
    \/ doc.kind # "array"
    \/ \E i \in 1..Len(doc.elems) :
          "title" \notin DOMAIN doc.elems[i] \/ doc.elems[i].title = ""

\* C14: an import of a document that is not an array, or that has an element
\* without a title, fails and leaves the collection in memory and the persisted
\* value exactly as they were.
C14_FailedImportChangesNothing ==
    [][ lastNode'.op = "import" =>
          \A doc \in ImportDocs, confirmed \in BOOLEAN, ok \in BOOLEAN :
              (InvalidDoc(doc) /\ ImportData(doc, confirmed, ok))
              => /\ nodes' = nodes
                 /\ storage' = storage
                 /\ lastNode'.outcome \in {"parseError", "validationError"} ]_vars

C14_Witness ==
    /\ lastNode.op = "import"
    /\ lastNode.outcome = "validationError"
    /\ Len(nodes.elems) > 0
    /\ storage[KeyNodes] = JSONstringify(nodes)

\* C15: an import changes the collection or the persisted value only when the
\* confirmation was asked for and accepted; when it is declined both stay as they
\* were, an empty imported array included.
C15_ImportReplacesOnlyWhenConfirmed ==
    [][ lastNode'.op = "import" =>
          \A doc \in ImportDocs, confirmed \in BOOLEAN, ok \in BOOLEAN :
              ImportData(doc, confirmed, ok)
              => /\ (nodes' # nodes \/ storage' # storage)
                        => (lastNode'.asked /\ confirmed)
                 /\ ~confirmed => (nodes' = nodes /\ storage' = storage) ]_vars

C15_Witness ==
    /\ lastNode.op = "import"
    /\ lastNode.outcome = "declined"
    /\ lastNode.asked
    /\ ~lastNode.confirmed
    /\ Len(nodes.elems) > 0
    /\ storage[KeyNodes] = JSONstringify(nodes)

\* round(100 * completed / total), halves rounded up: floor((200c + t) / 2t)
RoundedRatio(total, completed) == (200 * completed + total) \div (2 * total)

\* C20: once render() has run, the percentage on the progress bar is
\* round(100 * completed / total) for the nodes of the collection when there are
\* any, 0 when there are none, and an integer from 0 to 100.
\* Fails: over 40 nodes of which 23 are completed render() puts 57 on the bar,
\* where round(100 * 23 / 40) = round(57.5) = 58.
C20_PercentIsRoundedRatio ==
    lastNode.outcome \in {"rendered", "saved"}
    => LET total == Len(nodes.elems)
           completed == Cardinality({i \in 1..total :
                                       Get(nodes.elems[i], "status") = "completed"})
       IN  /\ percent \in 0..100
           /\ total = 0 => percent = 0
           /\ total > 0 => percent = RoundedRatio(total, completed)

\* A collection of the schema: an array of items none of which has a property set
\* to undefined or a number that is NaN.
ValidCollection(C) ==
    /\ C.type = "array"
    /\ \A i \in 1..Len(C.elems) : \A f \in DOMAIN C.elems[i] :
          /\ ~IsUndefined(C.elems[i], f)
          /\ f \in NumFields => C.elems[i][f] # NaN

\* C16: for every valid collection C, the empty one included, loadTopics() after a
\* saveTopics(C) whose write succeeded returns a collection equal to C: the same
\* items with the same fields and values in the same order.
C16_SaveLoadRoundTrip ==
    (lastOp.op = "save" /\ lastOp.writeOk /\ ValidCollection(lastOp.data))
        => loadTopics(storage) = lastOp.data

\* saveTopics has written a collection of two topics with two ids over what the
\* key held.
C16_Witness ==
    /\ lastOp.op = "save" /\ lastOp.writeOk
    /\ ValidCollection(lastOp.data)
    /\ Len(lastOp.data.elems) = 2
    /\ lastOp.data.elems[1].id # lastOp.data.elems[2].id
    /\ topics # lastOp.data

\* The items of seq whose status is f, in the order of seq; all of seq for 'all'.
RECURSIVE ExpectedView(_, _)
ExpectedView(seq, f) ==
    IF seq = <<>> THEN <<>>
    ELSE (IF f = "all" \/ Head(seq).status = f THEN <<Head(seq)>> ELSE <<>>)
            \o ExpectedView(Tail(seq), f)

\* C17: the filtered view is every item in store order for 'all' and otherwise
\* exactly the items whose status is the filter, in store order (renderTopics and
\* filteredJourneys alike); the cards on the page are that view for currentFilter;
\* and setting the filter changes neither the collection nor the persisted value.
C17_FilteredViewIsExact ==
    /\ [](tpc = "ready" =>
            /\ \A f \in TopicFilters :
                  /\ renderTopics(topics, f) = ExpectedView(topics.elems, f)
                  /\ filteredJourneys(topics, f) = ExpectedView(topics.elems, f)
            /\ shown = ExpectedView(topics.elems, currentFilter))
    /\ [][ \A f \in TopicFilters :
              SetTopicFilter(f) => (topics' = topics /\ storage' = storage) ]_vars

C17_Witness ==
    /\ tpc = "ready"
    /\ currentFilter = "completed"
    /\ Len(topics.elems) = 2
    /\ topics.elems[1].status # "completed"
    /\ shown = <<topics.elems[2]>>
    /\ storage[KeyTopics] = JSONstringify(topics)

Range(seq) == {seq[i] : i \in 1..Len(seq)}

\* C18: for every collection the page reaches, the view of each status is part of
\* the view of 'all', the views of the statuses together hold every item of the
\* view of 'all', and no item is in two of them.
C18_FilterPartition ==
    tpc = "ready" =>
        LET all == renderTopics(topics, "all")
        IN  /\ all = topics.elems
            /\ \A s \in TopicStatuses :
                  Range(renderTopics(topics, s)) \subseteq Range(all)
            /\ UNION {Range(renderTopics(topics, s)) : s \in TopicStatuses} = Range(all)
            /\ \A i \in 1..Len(all) :
                  Cardinality({s \in TopicStatuses :
                                 all[i] \in Range(renderTopics(topics, s))}) = 1
            /\ Len(renderTopics(topics, "not-started"))
                  + Len(renderTopics(topics, "in-progress"))
                  + Len(renderTopics(topics, "completed")) = Len(all)

C18_Witness ==
    /\ tpc = "ready"
    /\ lastOp.op = "init"
    /\ Len(topics.elems) = 2
    /\ Len(renderTopics(topics, "completed")) = 1
    /\ Len(renderTopics(topics, "not-started")) = 1

\* C19: the counters on the page add up: notStarted + inProgress + completed =
\* total, and total is the number of topics in the collection.
C19_StatisticsAddUp ==
    tpc = "ready" =>
        /\ stats = updateStatistics(topics)
        /\ stats.notStarted + stats.inProgress + stats.completed = stats.total
        /\ stats.total = Len(topics.elems)

C19_Witness ==
    /\ tpc = "ready"
    /\ lastUi.handler = "submit" /\ lastUi.valid
    /\ stats = [notStarted |-> 1, inProgress |-> 0, completed |-> 1, total |-> 2]
    /\ Len(topics.elems) = 2

----------------------------------------------------------------------------
(* Search, order of the collection, the forms, persistence and the view *)

\* The empty string for a field that is absent, else the field
FieldText(item, f) == IF Get(item, f) = UNDEFINED THEN "" ELSE item[f]

\* The items of seq that match the status filter f and whose title or destinations
\* contains the query, case ignored, in the order of seq
RECURSIVE SearchView(_, _, _)
SearchView(seq, f, query) ==
    IF seq = <<>> THEN <<>>
    ELSE (IF /\ f = "all" \/ Get(Head(seq), "status") = f
             /\ \/ includes(toLowerCase(FieldText(Head(seq), "title")),
                            toLowerCase(query))
                \/ includes(toLowerCase(FieldText(Head(seq), "destinations")),
                            toLowerCase(query))
          THEN <<Head(seq)>> ELSE <<>>)
            \o SearchView(Tail(seq), f, query)

\* C21: the list render() shows is exactly the items that match the status filter
\* (or filter 'all') and whose lower-cased title or lower-cased destinations
\* contains the lower-cased query; with an empty query it is the status-filtered
\* view.
\* Fails: render() of part_000 looks for the query in the title only.
C21_SearchComposesWithFilter ==
    (lastNode.op = "search" /\ lastNode.outcome = "rendered") =>
        /\ listed.list = SearchView(nodes.elems, nodeFilter, searchInput)
        /\ searchInput = "" => listed.list = filteredJourneys(nodes, nodeFilter)

\* C22: computing the searched and filtered view never raises, whatever fields the
\* items lack.
\* Fails: in render() of part_000 j.title.toLowerCase() throws on an item without
\* a title.
C22_SearchNeverRaises ==
    ~listed.threw

\* C23: at most one timer is pending at any time; a keystroke cancels the pending
\* timer and starts a new one; the debounced render runs only when the input has
\* been quiet for the full 300 ms, from the timer of the last keystroke; a burst of
\* keystrokes causes one render and no more, and that render does come.
C23_DebounceCoalescesBursts ==
    /\ [](Cardinality(timers) <= 1 /\ burst.renders <= 1)
    /\ [][ \A text \in SearchTexts :
              SearchKeystroke(text) =>
                  /\ timers' = {[id |-> searchDebounceTimer', left |-> DebounceMs]}
                  /\ searchDebounceTimer' \notin {t.id : t \in timers} ]_vars
    /\ [][ FireTimer =>
              /\ quiet >= DebounceMs
              /\ \A t \in timers : t.id = searchDebounceTimer
              /\ timers' = {}
              /\ burst.renders = 0 /\ burst'.renders = 1 ]_vars
    /\ [](timers # {} => <>(timers = {} /\ burst.renders = 1))

\* A burst of two keystrokes or more has ended in its one render.
C23_Witness ==
    /\ lastNode.op = "search"
    /\ burst.keys >= 2
    /\ burst.renders = 1
    /\ timers = {}
    /\ quiet = DebounceMs
    /\ searchInput # ""

\* a is b with some of its elements left out: the elements of a are elements of b,
\* in b's order
RECURSIVE IsSubsequence(_, _)
IsSubsequence(a, b) ==
    IF a = <<>> THEN TRUE
    ELSE IF b = <<>> THEN FALSE
    ELSE IF Head(a) = Head(b) THEN IsSubsequence(Tail(a), Tail(b))
    ELSE IsSubsequence(a, Tail(b))

IdsOf(seq) == [i \in 1..Len(seq) |-> seq[i].id]

\* C24: createTopic puts the new topic at the front and the create branch of
\* handleSubmit puts the new journey at the end, the items there were following or
\* preceding it in their order; an update or an edit leaves every item at its
\* position; a delete leaves the remaining items in their relative order.
C24_MutationsKeepOrder ==
    [][ /\ lastOp'.op = "create" =>
              /\ Head(topics'.elems).id = lastOp'.id
              /\ Tail(topics'.elems) = topics.elems
        /\ lastOp'.op = "update" =>
              /\ IdsOf(topics'.elems) = IdsOf(topics.elems)
              /\ \A i \in 1..Len(topics.elems) :
                    topics.elems[i].id # lastOp'.id => topics'.elems[i] = topics.elems[i]
        /\ lastOp'.op = "delete" =>
              /\ IsSubsequence(topics'.elems, topics.elems)
              /\ \A i \in 1..Len(topics.elems) :
                    topics.elems[i].id # lastOp'.id => IsPartOf(topics.elems[i], topics')
        /\ (SubmitForm /\ editingId = 0) =>
              /\ Len(journeys'.elems) = Len(journeys.elems) + 1
              /\ SubSeq(journeys'.elems, 1, Len(journeys.elems)) = journeys.elems
              /\ journeys'.elems[Len(journeys'.elems)].id = now
        /\ (SubmitForm /\ editingId # 0) =>
              /\ IdsOf(journeys'.elems) = IdsOf(journeys.elems)
              /\ \A i \in 1..Len(journeys.elems) :
                    journeys.elems[i].id # editingId =>
                        journeys'.elems[i] = journeys.elems[i]
        /\ \A i \in 1..MaxOrder :
              HandleDelete(i) =>
                  /\ IsSubsequence(journeys'.elems, journeys.elems)
                  /\ Len(journeys'.elems) < Len(journeys.elems) ]_vars

\* A topic has been created in front of two topics that have two ids, and its
\* cards are on the page.
C24_Witness ==
    /\ lastOp.op = "create" /\ lastUi.handler = "submit"
    /\ Len(topics.elems) = 3
    /\ topics.elems[1].id = lastOp.id
    /\ topics.elems[2].id # topics.elems[3].id
    /\ shown = topics.elems

\* The id and the createdAt of each item, in the order of the collection
Identity(C) == [i \in 1..Len(C.elems) |-> <<C.elems[i].id, C.elems[i].createdAt>>]

\* C25: through the form handlers of both pages no item's id or createdAt changes: a
\* submit in edit mode leaves the ids and the createdAt values as they were, item
\* by item, and so adds and removes nothing; a submit in add mode adds one item to
\* the items there were; a delete leaves some of the items there were.
C25_IdAndCreatedAtAreFixed ==
    [][ /\ \A raw \in RawForms, ok \in BOOLEAN :
              HandleFormSubmit(raw, ok) =>
                  /\ editingTopicId # 0 => Identity(topics') = Identity(topics)
                  /\ editingTopicId = 0 =>
                        /\ IsSubsequence(Identity(topics), Identity(topics'))
                        /\ Len(topics'.elems) <= Len(topics.elems) + 1
        /\ \A i \in 1..MaxOrder, confirmed \in BOOLEAN, ok \in BOOLEAN :
              HandleDeleteTopic(i, confirmed, ok) =>
                  IsSubsequence(Identity(topics'), Identity(topics))
        /\ SubmitForm =>
              /\ editingId # 0 => Identity(journeys') = Identity(journeys)
              /\ editingId = 0 =>
                    /\ IsSubsequence(Identity(journeys), Identity(journeys'))
                    /\ Len(journeys'.elems) = Len(journeys.elems) + 1
        /\ \A i \in 1..MaxOrder :
              HandleDelete(i) => IsSubsequence(Identity(journeys'), Identity(journeys)) ]_vars

\* The second of three journeys has been edited through the form and the save
\* effect has written the collection: the journey carries the destinations property
\* that only the form of an edit has (handleEdit puts journey.destinations, which no
\* created journey has, into formData), and the id and createdAt of its creation.
C25_Witness ==
    /\ jPhase = "idle" /\ jTouched
    /\ Len(journeys.elems) = 3
    /\ "destinations" \in DOMAIN journeys.elems[2]
    /\ "destinations" \notin DOMAIN journeys.elems[1]
    /\ journeys.elems[2].id = 2
    /\ journeys.elems[2].createdAt = toISOString(2)
    /\ storage[KeyJourneys] = JSONstringify(journeys)

\* C26: when the header button opens the form, editingId is null, and a submit of
\* that form appends a new journey and leaves the journeys there were as they are.
\* Fails: the header button only toggles showForm; after an edit was begun and the
\* form was closed with the same button, editingId still holds the journey's id.
C26_AddFormAppends ==
    [][ (ToggleForm /\ ~showForm) =>
          /\ editingId' = 0
          /\ LET submitted == submitJourneys(journeys', formData', editingId', now', now')
             IN  /\ Len(submitted.elems) = Len(journeys.elems) + 1
                 /\ SubSeq(submitted.elems, 1, Len(journeys.elems)) = journeys.elems ]_vars

\* C27: from the mount until the first mutation by a handler, the value under
\* 'journeys' is the collection that was persisted before the mount.
\* Fails: the save effect of the first render writes the initial [] over it; the
\* collection is written back only after the re-render.
C27_MountKeepsPersistedData ==
    (jPhase # "unmounted" /\ ~jTouched /\ jAtMount.kind = "array") =>
        storage[KeyJourneys] = jAtMount

\* C28: when text was entered in the input labelled 'End Of Task' and the form is
\* submitted, the journey created, or the journey edited, has that text as its
\* destinations.
\* Fails: the input is named "End of Task", so handleInputChange stores the text
\* under that key of formData and never under destinations.
C28_DestinationsAreStored ==
    [][ (SubmitForm /\ "End of Task" \in DOMAIN formData) =>
          \A i \in 1..Len(journeys'.elems) :
              (IF editingId = 0 THEN i = Len(journeys'.elems)
               ELSE journeys'.elems[i].id = editingId)
              => Get(journeys'.elems[i], "destinations") = formData["End of Task"] ]_vars

\* C29: once a write has failed, every later call whose write succeeds leaves under
\* 'learningTopics' the whole collection in memory, and with it every topic that
\* was in memory before the call and was not deleted by it, saved or not.
C29_LaterSaveRecovers ==
    [][ (fails > 0 /\ lastOp'.writeOk) =>
          /\ storage'[KeyTopics] = JSONstringify(topics')
          /\ loadTopics(storage') = topics'
          /\ \A i \in 1..Len(topics.elems) :
                topics.elems[i].id # lastOp'.id =>
                    \E j \in 1..Len(storage'[KeyTopics].elems) :
                        storage'[KeyTopics].elems[j] = topics.elems[i] ]_vars

\* The write of one create failed, the write of the next one succeeded, and both
\* topics are in storage.
C29_Witness ==
    /\ fails > 0
    /\ lastOp.op = "create" /\ lastOp.writeOk
    /\ Len(topics.elems) = 2
    /\ topics.elems[2].id < topics.elems[1].id
    /\ storage[KeyTopics] = JSONstringify(topics)

\* C30: on a page whose init has run, after every handler, the cards are the
\* topics whose status is currentFilter (all of them for 'all'), in store order, and
\* the four counters are the numbers of topics of each status and of all topics,
\* whether or not the last write to storage succeeded.
C30_ViewIsNeverStale ==
    tpc = "ready" =>
        /\ shown = ExpectedView(topics.elems, currentFilter)
        /\ \A i \in 1..Len(shown) : IsPartOf(shown[i], topics)
        /\ stats.total = Len(topics.elems)
        /\ stats.notStarted =
              Cardinality({i \in 1..Len(topics.elems) : topics.elems[i].status = "not-started"})
        /\ stats.inProgress =
              Cardinality({i \in 1..Len(topics.elems) : topics.elems[i].status = "in-progress"})
        /\ stats.completed =
              Cardinality({i \in 1..Len(topics.elems) : topics.elems[i].status = "completed"})

\* A confirmed delete whose write failed, under the filter 'completed': the card is
\* gone and the counters count the one topic that is left.
C30_Witness ==
    /\ tpc = "ready"
    /\ lastUi.handler = "delete" /\ lastUi.confirmed
    /\ lastOp.wrote /\ ~lastOp.writeOk
    /\ currentFilter = "completed"
    /\ Len(topics.elems) = 1
    /\ shown = <<>>
    /\ stats = [notStarted |-> 1, inProgress |-> 0, completed |-> 0, total |-> 1]
    /\ Len(storage[KeyTopics].elems) = 2

====
